---- MODULE Spec2Model ----
(***************************************************************************)
(* Model of the audio synthesis and timing-reconstruction pipeline of      *)
(* vsub_tts.py (VSubTTSGenerator.generate_audio and its helpers).          *)
(*                                                                         *)
(* Text is modelled as sequences of one-character strings so that the      *)
(* string conversions of the code (replace, int(), "{:+d}") are computed   *)
(* and not assumed.                                                        *)
(***************************************************************************)
EXTENDS Integers, Sequences, FiniteSets, TLC

VARIABLES
    \* ---- parameter normalizer harness (_validate_param) ----
    val_str,        \* the string handed to _validate_param
    param_type,     \* 'pitch' or 'rate'
    norm_out,       \* outcome of the first call
    norm_out2,      \* outcome of a second call on the first call's result
    norm_pc,        \* "idle", "ready", "once", "twice"
    \* ---- segment chunker harness (the grouping loop of _process_sentence) ----
    ck_words,       \* sentence.words
    ck_chunks,      \* the chunks list after the loop
    ck_pc,          \* "idle", "ready", "done"
    \* ---- timestamp estimator harness (_estimate_timestamps) ----
    est_meas,       \* per audio file: what ffprobe / os.path.getsize answer
    est_initial,    \* initial_timestamps (the word records are shared, so
                    \* the call can change them)
    est_out,        \* the returned timestamps list
    est_pc,         \* "idle", "ready", "done", "raised"
    \* ---- one generation run (generate_audio) ----
    sentences,      \* the sentences argument
    task,           \* per sentence: the state of its _process_sentence task
    calls,          \* per temporary path: the synthesis call writing to it
    files,          \* the file system: per path, whether it exists and its audio
    finish_order,   \* the sentences in the order in which their tasks finished
    faults,         \* how many ffmpeg and ffprobe failures have happened in this run
    final_combine,  \* how the final _combine_audio_files call went, if it ran
    gen_pc,         \* "idle", "running", "returned", "raised"
    gen_result,     \* what generate_audio returned or raised
    \* ---- two generation runs side by side (one thread and loop each) ----
    rn_nsent,       \* per run: how many sentences (with words) it was given
    rn_pc,          \* per run: "idle", "tasks", "combine", "cleanup", "except",
                    \*          "returned", "raised"
    rn_created,     \* per run: the temporary names its sentence tasks created
    rn_temp_files,  \* per list: the temp_files list
    rn_pos,         \* per run: position of its cleanup loop in temp_files
    rn_disk,        \* per temporary name: the run whose file has it, 0 if none
    rn_foreign,     \* history: the writes and deletions that hit a file of
                    \* another run
    \* --- the editor (VSubApp) ---
    voice_var,      \* the global voice, pitch and rate widgets
    pitch_var,
    rate_var,
    title_entry,    \* the text of the title entry
    app_sentences,  \* generator.sentences: [voice, pitch, rate, words], a word
                    \* is [pitch, rate, custom]; custom (history) says that
                    \* the user applied settings to the word
    app_requests,   \* history: how often Generate Audio was clicked
    app_started,    \* history: how many generation threads were started
    app_shown,      \* the warning the last click showed, "" if none
    \* --- the time-code harness ---
    tm_ms,          \* the input of _ms_to_srt_time and _ms_to_vtt_time
    tm_srt,         \* the result of _ms_to_srt_time
    tm_vtt,         \* the result of _ms_to_vtt_time
    tm_back,        \* the result of _srt_time_to_ms on tm_srt
    tm_pc           \* "idle", "ready", "rendered", "parsed"

normVars == <<val_str, param_type, norm_out, norm_out2, norm_pc>>

chunkVars == <<ck_words, ck_chunks, ck_pc>>

estVars == <<est_meas, est_initial, est_out, est_pc>>

genVars ==
    <<sentences, task, calls, files, finish_order, faults, final_combine, gen_pc,
      gen_result>>

runVars ==
    <<rn_nsent, rn_pc, rn_created, rn_temp_files, rn_pos, rn_disk, rn_foreign>>

appVars ==
    <<voice_var, pitch_var, rate_var, title_entry, app_sentences, app_requests,
      app_started, app_shown>>

timeVars == <<tm_ms, tm_srt, tm_vtt, tm_back, tm_pc>>

vars == <<normVars, chunkVars, estVars, genVars, runVars, appVars, timeVars>>

(***************************************************************************)
(* Bounds                                                                  *)
(***************************************************************************)
MaxN == 120         \* integers rendered as "+N"/"-N" range over -MaxN..MaxN
MaxStr == 3         \* longest arbitrary (possibly malformed) input string
MaxChunkWords == 4  \* longest word list handed to the chunker harness
MaxDecoSent == 1    \* most clips of an estimator call on decorated words
MaxDecoWords == 2   \* most words of a sentence with decorated words
MaxRunSent == 2     \* most sentences of each of two runs side by side
MaxEstSent == 2     \* most sentence clips handed to the estimator harness
MaxSent == 2        \* most sentences of one generation run
MaxScriptWords == 2 \* most words of all sentences of a run together
MaxFaults == 1      \* most ffmpeg and ffprobe failures in one run
MaxSynthFaults == 2 \* most synthesis calls that fail in one run
MaxEstWords == 2    \* most words of one sentence in the estimator harness
MaxAppSent == 1     \* most sentences of the script in the editor
MaxAppWords == 1    \* most words of all sentences in the editor together
MaxGenerations == 2 \* most clicks on Generate Audio
MaxMs == 120        \* time codes are rendered for 0..MaxMs and for TimeScenarios

(***************************************************************************)
(* Generic helpers                                                         *)
(***************************************************************************)
Max(a, b) == IF a >= b THEN a ELSE b

Min(a, b) == IF a <= b THEN a ELSE b

SeqsUpTo(S, n) == UNION {[1..k -> S] : k \in 0..n}

(***************************************************************************)
(* Python string and integer conversions used by _validate_param           *)
(***************************************************************************)
Digits == <<"0", "1", "2", "3", "4", "5", "6", "7", "8", "9">>

DigitChars == {Digits[i] : i \in 1..10}

DigitVal(c) == (CHOOSE i \in 1..10 : Digits[i] = c) - 1

\* str.replace(c, '') for a one-character pattern
RemoveChar(s, c) == SelectSeq(s, LAMBDA x : x # c)

\* str.replace('Hz', ''): left-to-right, non-overlapping
RECURSIVE RemoveHz(_)
RemoveHz(s) ==
    IF Len(s) = 0 THEN <<>>
    ELSE IF Len(s) >= 2 /\ s[1] = "H" /\ s[2] = "z"
         THEN RemoveHz(SubSeq(s, 3, Len(s)))
         ELSE <<s[1]>> \o RemoveHz(Tail(s))

\* str.strip() as applied by int() to its argument (blank = " ")
RECURSIVE LStrip(_)
LStrip(s) == IF Len(s) > 0 /\ s[1] = " " THEN LStrip(Tail(s)) ELSE s

RECURSIVE RStrip(_)
RStrip(s) ==
    IF Len(s) > 0 /\ s[Len(s)] = " " THEN RStrip(SubSeq(s, 1, Len(s) - 1)) ELSE s

RECURSIVE DigitsToNat(_)
DigitsToNat(s) ==
    IF Len(s) = 0 THEN 0
    ELSE 10 * DigitsToNat(SubSeq(s, 1, Len(s) - 1)) + DigitVal(s[Len(s)])

AllDigits(s) == Len(s) > 0 /\ \A i \in 1..Len(s) : s[i] \in DigitChars

\* int(num_str): optional blanks, optional sign, at least one digit;
\* anything else raises ValueError (ok = FALSE)
PyInt(s) ==
    LET t == RStrip(LStrip(s))
        signed == Len(t) > 0 /\ t[1] \in {"+", "-"}
        body == IF signed THEN Tail(t) ELSE t
    IN  IF AllDigits(body)
        THEN [ok |-> TRUE,
              val |-> IF signed /\ t[1] = "-" THEN 0 - DigitsToNat(body)
                      ELSE DigitsToNat(body)]
        ELSE [ok |-> FALSE, val |-> 0]

RECURSIVE NatToDigits(_)
NatToDigits(n) ==
    IF n < 10 THEN <<Digits[n + 1]>>
    ELSE NatToDigits(n \div 10) \o <<Digits[(n % 10) + 1]>>

\* f"{val:+d}"
FormatSigned(n) ==
    IF n < 0 THEN <<"-">> \o NatToDigits(0 - n) ELSE <<"+">> \o NatToDigits(n)

(***************************************************************************)
(* _validate_param                                                         *)
(***************************************************************************)
RATE_MIN == 0 - 50

RATE_MAX == 100

PITCH_MIN == 0 - 100

PITCH_MAX == 100

\* val_str.replace('%', '').replace('Hz', '').replace('+', '')
NumStr(s) == RemoveChar(RemoveHz(RemoveChar(s, "%")), "+")

\* a plausible slip: the rate is clamped with the pitch bounds
ValidateBody_PitchBoundsForRate(s, ptype) ==
    LET parsed == PyInt(NumStr(s))
    IN  IF ~parsed.ok THEN [exc |-> TRUE, ret |-> <<>>]
        ELSE IF ptype = "rate"
             THEN [exc |-> FALSE,
                   ret |-> FormatSigned(Max(PITCH_MIN, Min(PITCH_MAX, parsed.val)))
                           \o <<"%">>]
        ELSE IF ptype = "pitch"
             THEN [exc |-> FALSE,
                   ret |-> FormatSigned(Max(PITCH_MIN, Min(PITCH_MAX, parsed.val)))
                           \o <<"H", "z">>]
        ELSE [exc |-> FALSE, ret |-> s]

\* the body of the try block: exc = TRUE when int() raises
ValidateBody(s, ptype) ==
    LET parsed == PyInt(NumStr(s))
    IN  IF ~parsed.ok THEN [exc |-> TRUE, ret |-> <<>>]
        ELSE IF ptype = "rate"
             THEN [exc |-> FALSE,
                   ret |-> FormatSigned(Max(RATE_MIN, Min(RATE_MAX, parsed.val)))
                           \o <<"%">>]
        ELSE IF ptype = "pitch"
             THEN [exc |-> FALSE,
                   ret |-> FormatSigned(Max(PITCH_MIN, Min(PITCH_MAX, parsed.val)))
                           \o <<"H", "z">>]
        ELSE [exc |-> FALSE, ret |-> s]

\* a plausible slip: no except clause, the ValueError of int() escapes
ValidateParam_NoExcept(s, ptype) ==
    LET r == ValidateBody(s, ptype)
    IN  IF r.exc THEN [raised |-> TRUE, ret |-> <<>>]
        ELSE [raised |-> FALSE, ret |-> r.ret]

\* try: ... except: return val_str
ValidateParam(s, ptype) ==
    LET r == ValidateBody(s, ptype)
    IN  IF r.exc THEN [raised |-> FALSE, ret |-> s]
        ELSE [raised |-> FALSE, ret |-> r.ret]

(***************************************************************************)
(* Segment chunker: the grouping loop of _process_sentence                 *)
(* A word is [text, pitch, rate]; a chunk is [words, pitch, rate] where     *)
(* words is the list of word texts.                                        *)
(***************************************************************************)
NewChunk(texts, w) == [words |-> texts, pitch |-> w.pitch, rate |-> w.rate]

\* a plausible slip: a word joins the current chunk when the pitch alone agrees
RECURSIVE ChunkLoop_PitchOnly(_, _, _, _)
ChunkLoop_PitchOnly(words, i, chunks, current_chunk) ==
    IF i > Len(words) THEN Append(chunks, current_chunk)
    ELSE LET word == words[i]
         IN  IF word.pitch = current_chunk.pitch
             THEN ChunkLoop_PitchOnly(words, i + 1, chunks,
                      [current_chunk EXCEPT !.words = Append(@, word.text)])
             ELSE ChunkLoop_PitchOnly(words, i + 1, Append(chunks, current_chunk),
                      NewChunk(<<word.text>>, word))

\* for word in sentence.words: ... ; chunks.append(current_chunk)
RECURSIVE ChunkLoop(_, _, _, _)
ChunkLoop(words, i, chunks, current_chunk) ==
    IF i > Len(words) THEN Append(chunks, current_chunk)
    ELSE LET word == words[i]
         IN  IF word.pitch = current_chunk.pitch /\ word.rate = current_chunk.rate
             THEN ChunkLoop(words, i + 1, chunks,
                      [current_chunk EXCEPT !.words = Append(@, word.text)])
             ELSE ChunkLoop(words, i + 1, Append(chunks, current_chunk),
                      NewChunk(<<word.text>>, word))

\* chunks = [] ; if not sentence.words: return ... ; the loop above
ChunkWords(words) ==
    IF Len(words) = 0 THEN <<>>
    ELSE ChunkLoop(words, 1, <<>>, NewChunk(<<>>, words[1]))

(***************************************************************************)
(* Exact arithmetic for the float computations of _estimate_timestamps.    *)
(* A number is [n, d] with d > 0, kept in lowest terms; the rounding error  *)
(* of IEEE doubles is not modelled.                                        *)
(***************************************************************************)
Abs(x) == IF x < 0 THEN 0 - x ELSE x

RECURSIVE GCD(_, _)
GCD(a, b) == IF b = 0 THEN a ELSE GCD(b, a % b)

Rat(n, d) ==
    LET g == GCD(Abs(n), d)
    IN  IF n = 0 THEN [n |-> 0, d |-> 1] ELSE [n |-> n \div g, d |-> d \div g]

RInt(i) == [n |-> i, d |-> 1]

RAdd(a, b) == Rat(a.n * b.d + b.n * a.d, a.d * b.d)

RMul(a, b) == Rat(a.n * b.n, a.d * b.d)

RDivInt(a, k) == Rat(a.n, a.d * k)

\* int(x): truncation toward zero
Trunc(r) == IF r.n >= 0 THEN r.n \div r.d ELSE 0 - ((0 - r.n) \div r.d)

(***************************************************************************)
(* _estimate_timestamps                                                    *)
(* A measurement says what the outside world answers for one audio file:   *)
(*   probe_ok / probe_us : ffprobe exits 0 and prints a parsable duration  *)
(*                         (in microseconds),                              *)
(*   size_ok / file_size : os.path.getsize succeeds and returns file_size. *)
(***************************************************************************)
BYTES_PER_SECOND == 2000

DEFAULT_DURATION_MS == 2000

\* Method 1, and Method 2 in the inner except; ok = FALSE when getsize raises
MeasureDuration(m) ==
    IF m.probe_ok THEN [ok |-> TRUE, duration_ms |-> Rat(m.probe_us, 1000)]
    ELSE IF m.size_ok
         THEN [ok |-> TRUE,
               duration_ms |-> IF m.file_size > 0
                               THEN Rat(m.file_size * 1000, BYTES_PER_SECOND)
                               ELSE RInt(DEFAULT_DURATION_MS)]
         ELSE [ok |-> FALSE, duration_ms |-> RInt(0)]

RECURSIVE SumLen(_)
SumLen(words) ==
    IF Len(words) = 0 THEN 0 ELSE Len(Head(words).text) + SumLen(Tail(words))

WordDuration(w, words, total_chars, duration_ms) ==
    IF total_chars > 0 THEN RMul(Rat(Len(w.text), total_chars), duration_ms)
    ELSE RDivInt(duration_ms, Len(words))

\* the 'image' / 'audio' descriptor of a word record; start_ms is the offset
\* from the word start, absolute_start_ms exists once resolved is TRUE
NoDescriptor ==
    [present |-> FALSE, start_ms |-> 0, resolved |-> FALSE, absolute_start_ms |-> 0]

\* offset = w['image'].get('start_ms', 0); if offset is None: offset = 0
\* w['image']['absolute_start_ms'] = int(current_word_start + offset)
Resolve(d, current_word_start) ==
    IF d.present
    THEN [d EXCEPT !.resolved = TRUE,
                   !.absolute_start_ms =
                       Trunc(RAdd(current_word_start, RInt(d.start_ms)))]
    ELSE d

\* a plausible slip: the per-word cursor is never advanced
RECURSIVE WordLoop_CursorNotAdvanced(_, _, _, _, _)
WordLoop_CursorNotAdvanced(words, k, current_word_start, total_chars, duration_ms) ==
    IF k > Len(words) THEN words
    ELSE LET word_duration == WordDuration(words[k], words, total_chars, duration_ms)
             w == [words[k] EXCEPT
                      !.start_ms = Trunc(current_word_start),
                      !.end_ms = Trunc(RAdd(current_word_start, word_duration))]
         IN  WordLoop_CursorNotAdvanced([words EXCEPT ![k] = w], k + 1,
                      current_word_start, total_chars, duration_ms)

\* for w in words: ... current_word_start += word_duration
RECURSIVE WordLoop(_, _, _, _, _)
WordLoop(words, k, current_word_start, total_chars, duration_ms) ==
    IF k > Len(words) THEN words
    ELSE LET word_duration == WordDuration(words[k], words, total_chars, duration_ms)
             w == [words[k] EXCEPT
                      !.start_ms = Trunc(current_word_start),
                      !.end_ms = Trunc(RAdd(current_word_start, word_duration)),
                      !.image = Resolve(@, current_word_start),
                      !.audio = Resolve(@, current_word_start)]
         IN  WordLoop([words EXCEPT ![k] = w], k + 1,
                      RAdd(current_word_start, word_duration), total_chars, duration_ms)

\* the refined entry of one measured sentence
RefineEntry(entry, current_time, duration_ms) ==
    LET start_ms == Trunc(current_time)
        end_ms == Trunc(RAdd(current_time, duration_ms))
        words == entry.words
    IN  [entry EXCEPT
            !.start_ms = start_ms,
            !.end_ms = end_ms,
            !.words = IF Len(words) > 0
                      THEN WordLoop(words, 1, RInt(start_ms), SumLen(words), duration_ms)
                      ELSE words]

\* a plausible slip: the running cursor is never advanced
RECURSIVE EstimateLoop_CursorStuck(_, _, _, _, _)
EstimateLoop_CursorStuck(meas, initial, i, timestamps, current_time) ==
    IF i > Len(meas)
    THEN [timestamps |-> timestamps, initial |-> initial, raised |-> FALSE]
    ELSE LET m == MeasureDuration(meas[i])
         IN  IF ~m.ok
             THEN EstimateLoop_CursorStuck(meas, initial, i + 1,
                      IF i <= Len(initial) THEN Append(timestamps, initial[i])
                      ELSE timestamps,
                      current_time)
             ELSE IF i <= Len(initial)
                  THEN LET ts == RefineEntry(initial[i], current_time, m.duration_ms)
                       IN  EstimateLoop_CursorStuck(meas,
                               [initial EXCEPT ![i].words = ts.words], i + 1,
                               Append(timestamps, ts), current_time)
                  ELSE EstimateLoop_CursorStuck(meas, initial, i + 1, timestamps,
                                                current_time)

\* a plausible slip: no outer except, so an os.path.getsize that raises ends
\* the call
RECURSIVE EstimateLoop_NoOuterExcept(_, _, _, _, _)
EstimateLoop_NoOuterExcept(meas, initial, i, timestamps, current_time) ==
    IF i > Len(meas)
    THEN [timestamps |-> timestamps, initial |-> initial, raised |-> FALSE]
    ELSE LET m == MeasureDuration(meas[i])
         IN  IF ~m.ok
             THEN [timestamps |-> timestamps, initial |-> initial, raised |-> TRUE]
             ELSE IF i <= Len(initial)
                  THEN LET ts == RefineEntry(initial[i], current_time, m.duration_ms)
                       IN  EstimateLoop_NoOuterExcept(meas,
                               [initial EXCEPT ![i].words = ts.words], i + 1,
                               Append(timestamps, ts),
                               RAdd(current_time, m.duration_ms))
                  ELSE EstimateLoop_NoOuterExcept(meas, initial, i + 1, timestamps,
                                                  current_time)

\* for i, audio_file in enumerate(audio_files): try ... except ...
\* Every statement of the loop body is inside the try, so the result is
\* never raised = TRUE.
\* ts is a shallow copy: ts['words'] and its word records are the objects of
\* initial_timestamps[i], so refining them changes initial_timestamps too.
RECURSIVE EstimateLoop(_, _, _, _, _)
EstimateLoop(meas, initial, i, timestamps, current_time) ==
    IF i > Len(meas)
    THEN [timestamps |-> timestamps, initial |-> initial, raised |-> FALSE]
    ELSE LET m == MeasureDuration(meas[i])
         IN  IF ~m.ok
             THEN EstimateLoop(meas, initial, i + 1,
                      IF i <= Len(initial) THEN Append(timestamps, initial[i])
                      ELSE timestamps,
                      current_time)
             ELSE IF i <= Len(initial)
                  THEN LET ts == RefineEntry(initial[i], current_time, m.duration_ms)
                       IN  EstimateLoop(meas,
                               [initial EXCEPT ![i].words = ts.words], i + 1,
                               Append(timestamps, ts),
                               RAdd(current_time, m.duration_ms))
                  ELSE EstimateLoop(meas, initial, i + 1, timestamps, current_time)

EstimateTimestamps(meas, initial_timestamps) ==
    EstimateLoop(meas, initial_timestamps, 1, <<>>, RInt(0))

(***************************************************************************)
(* The preliminary entry _process_sentence builds for sentence idx         *)
(***************************************************************************)
PLACEHOLDER_MS == 2000

\* WordSettings.image_path with image_start_ms (audio_path with
\* audio_start_ms): has_start = FALSE stands for a start of None
NoAttachment == [has_path |-> FALSE, has_start |-> FALSE, start_ms |-> 0]

\* if word.image_path: word_data['image'] = {'start_ms': word.image_start_ms
\*     if word.image_start_ms is not None else 0, ...}
Descriptor(att) ==
    IF att.has_path
    THEN [present |-> TRUE, start_ms |-> IF att.has_start THEN att.start_ms ELSE 0,
          resolved |-> FALSE, absolute_start_ms |-> 0]
    ELSE NoDescriptor

InitialWord(word) ==
    [text |-> word.text, start_ms |-> 0, end_ms |-> 0,
     image |-> Descriptor(word.image), audio |-> Descriptor(word.audio)]

\* a plausible slip: the preliminary entry lists only the words that have a
\* letter in them
InitialEntry_VoicedWordsOnly(idx, words) ==
    LET Voiced(w) == \E j \in 1..Len(w.text) : w.text[j] \in {"H", "i"}
        kept == SelectSeq(words, Voiced)
    IN  [sentence_index |-> idx,
         start_ms |-> idx * PLACEHOLDER_MS,
         end_ms |-> (idx + 1) * PLACEHOLDER_MS,
         words |-> [k \in 1..Len(kept) |-> InitialWord(kept[k])]]

InitialEntry(idx, words) ==
    [sentence_index |-> idx,
     start_ms |-> idx * PLACEHOLDER_MS,
     end_ms |-> (idx + 1) * PLACEHOLDER_MS,
     words |-> [k \in 1..Len(words) |-> InitialWord(words[k])]]

(***************************************************************************)
(* Files and audio                                                         *)
(* A path is [kind, s, c]: the temporary clip of sentence s ("sent"), the  *)
(* temporary clip of chunk c of sentence s ("chunk"), the concat list file *)
(* of a combine call ("list", s = 0 for the final one) and the output      *)
(* path ("out").  Audio is a sequence of synthesized pieces; a piece keeps *)
(* the call it came from, the length of its speech and whether the silence *)
(* the engine puts before and after the speech is still there.             *)
(***************************************************************************)
SentPath(i) == [kind |-> "sent", s |-> i, c |-> 0]

ChunkPath(i, k) == [kind |-> "chunk", s |-> i, c |-> k]

ListPath(i) == [kind |-> "list", s |-> i, c |-> 0]

OutPath == [kind |-> "out", s |-> 0, c |-> 0]

NoPath == [kind |-> "none", s |-> 0, c |-> 0]

CallPaths ==
    {SentPath(i) : i \in 1..MaxSent}
        \cup {ChunkPath(i, k) : i \in 1..MaxSent, k \in 1..MaxScriptWords}

AllPaths == CallPaths \cup {ListPath(i) : i \in 0..MaxSent} \cup {OutPath}

Absent == [exists |-> FALSE, data |-> <<>>]

EmptyFile == [exists |-> TRUE, data |-> <<>>]

\* os.unlink on each of the paths (a missing file is passed over)
Unlink(fs, paths) ==
    [p \in DOMAIN fs |->
        IF \E j \in 1..Len(paths) : paths[j] = p THEN Absent ELSE fs[p]]

\* what the engine produces: speech in proportion to the text, with silence
\* before and after it
CHAR_US == 80100

SILENCE_US == 100300

SynthesizedPiece(i, k, text) ==
    [s |-> i, c |-> k, us |-> Len(text) * CHAR_US, lead |-> TRUE, trail |-> TRUE]

\* the silenceremove / areverse filter: both ends of the clip lose their silence
Trim(data) ==
    IF Len(data) = 0 THEN data
    ELSE [j \in 1..Len(data) |->
            [data[j] EXCEPT !.lead = IF j = 1 THEN FALSE ELSE @,
                            !.trail = IF j = Len(data) THEN FALSE ELSE @]]

RECURSIVE DurationUs(_)
DurationUs(data) ==
    IF Len(data) = 0 THEN 0
    ELSE Head(data).us + (IF Head(data).lead THEN SILENCE_US ELSE 0)
             + (IF Head(data).trail THEN SILENCE_US ELSE 0) + DurationUs(Tail(data))

\* bytes on disk of a clip (about 48 kbit/s)
US_PER_BYTE == 167

FileSize(data) == DurationUs(data) \div US_PER_BYTE

RECURSIVE ConcatAll(_)
ConcatAll(ss) == IF Len(ss) = 0 THEN <<>> ELSE Head(ss) \o ConcatAll(Tail(ss))

(***************************************************************************)
(* _combine_audio_files                                                    *)
(* An outcome says what ffmpeg does in one call.  raise_at is the first    *)
(* subprocess.run that cannot start its process and raises (0: none,       *)
(* j <= n: the trim of input j, n + 1: the concat); trim_ok[j] says that   *)
(* the trim of input j ran and exited 0, concat_ok that the concat ran and *)
(* exited 0.                                                               *)
(***************************************************************************)
CombineOutcomes(n) ==
    {oc \in [raise_at : 0..(n + 1), trim_ok : [1..n -> BOOLEAN], concat_ok : BOOLEAN] :
        /\ oc.raise_at # 0 => ~oc.concat_ok
        /\ \A j \in 1..n : (oc.raise_at # 0 /\ j >= oc.raise_at) => ~oc.trim_ok[j]}

\* the trim of input j was started
TrimRan(oc, j) == oc.raise_at = 0 \/ j < oc.raise_at

\* every process could be started
Runnable(oc) == oc.raise_at = 0

OutcomeFaults(oc) ==
    Cardinality({j \in DOMAIN oc.trim_ok : TrimRan(oc, j) /\ ~oc.trim_ok[j]})
        + (IF Runnable(oc) THEN (IF oc.concat_ok THEN 0 ELSE 1) ELSE 1)

\* a plausible slip: the trimmed copies are not written back over the inputs
Combine_NoWriteBack(fs, input_files, output_file, list_file, oc) ==
    LET n == Len(input_files)
        original(j) == fs[input_files[j]].data
        trimmed(j) == IF oc.trim_ok[j] THEN Trim(original(j)) ELSE original(j)
        withList == IF oc.raise_at = 0 \/ oc.raise_at = n + 1
                    THEN [fs EXCEPT ![list_file] = EmptyFile] ELSE fs
    IN  IF Runnable(oc) /\ oc.concat_ok
        THEN [withList EXCEPT
                 ![output_file] = [exists |-> TRUE,
                                   data |-> ConcatAll([j \in 1..n |-> trimmed(j)])],
                 ![list_file] = Absent]
        ELSE IF n > 0
             THEN [withList EXCEPT
                      ![output_file] = [exists |-> TRUE, data |-> original(1)]]
             ELSE withList

Combine(fs, input_files, output_file, list_file, oc) ==
    LET n == Len(input_files)
        original(j) == fs[input_files[j]].data
        \* 1. trimmed_files: the trimmed copy, or the original when the trim
        \*    exits non-zero; a subprocess.run that raises ends the loop
        trimmed(j) == IF oc.trim_ok[j] THEN Trim(original(j)) ELSE original(j)
        trimLoopDone == oc.raise_at = 0 \/ oc.raise_at = n + 1
        \* 2. the list file is written once the trim loop is through
        withList == IF trimLoopDone
                    THEN [fs EXCEPT ![list_file] = EmptyFile] ELSE fs
        \* 3. concat, the list file is unlinked only when it succeeds;
        \*    except: copy the first input file to the output
        afterBody ==
            IF Runnable(oc) /\ oc.concat_ok
            THEN [withList EXCEPT
                     ![output_file] = [exists |-> TRUE,
                                       data |-> ConcatAll([j \in 1..n |-> trimmed(j)])],
                     ![list_file] = Absent]
            ELSE IF n > 0
                 THEN [withList EXCEPT
                          ![output_file] = [exists |-> TRUE, data |-> original(1)]]
                 ELSE withList
    \* finally: every trimmed copy is moved over its input file
    IN  [p \in DOMAIN afterBody |->
            IF \E j \in 1..n : input_files[j] = p /\ oc.trim_ok[j]
            THEN [exists |-> TRUE, data |-> Trim(fs[p].data)]
            ELSE afterBody[p]]

(***************************************************************************)
(* _process_sentence                                                       *)
(***************************************************************************)
AlnumChars == DigitChars \cup {"H", "i"}

\* re.search('[a-zA-Z0-9]', chunk_text)
HasAlnum(text) == \E j \in 1..Len(text) : text[j] \in AlnumChars

\* ' '.join(chunk['words'])
RECURSIVE JoinWords(_)
JoinWords(texts) ==
    IF Len(texts) = 0 THEN <<>>
    ELSE IF Len(texts) = 1 THEN Head(texts)
    ELSE Head(texts) \o <<" ">> \o JoinWords(Tail(texts))

NoCall ==
    [status |-> "none", s |-> 0, c |-> 0, text |-> <<>>, pitch |-> <<>>, rate |-> <<>>]

\* edge_tts.Communicate(text, voice, pitch=safe_pitch, rate=safe_rate).save(path)
NewCall(i, k, chunk) ==
    [status |-> "pending", s |-> i, c |-> k,
     text |-> JoinWords(chunk.words),
     pitch |-> ValidateParam(chunk.pitch, "pitch").ret,
     rate |-> ValidateParam(chunk.rate, "rate").ret]

\* the chunks that are sent to the engine in the several-chunks branch
VoicedChunks(chunks) ==
    {k \in 1..Len(chunks) : HasAlnum(JoinWords(chunks[k].words))}

\* indices of 1..n that are in S, in increasing order
RECURSIVE PickInOrder(_, _, _)
PickInOrder(S, k, n) ==
    IF k > n THEN <<>>
    ELSE (IF k \in S THEN <<k>> ELSE <<>>) \o PickInOrder(S, k + 1, n)

\* the requests _process_sentence issues for the chunks of one sentence, in the
\* order it issues them: the only chunk whatever its text, or every chunk that
\* holds a letter or a digit
Requests(i, chunks) ==
    IF Len(chunks) = 0 THEN <<>>
    ELSE IF Len(chunks) = 1 THEN <<NewCall(i, 1, chunks[1])>>
    ELSE LET order == PickInOrder(VoicedChunks(chunks), 1, Len(chunks))
         IN  [j \in 1..Len(order) |-> NewCall(i, order[j], chunks[order[j]])]

NoEntry == [sentence_index |-> 0, start_ms |-> 0, end_ms |-> 0, words |-> <<>>]

NoError == [s |-> 0, c |-> 0]

\* an exception that leaves _estimate_timestamps
MeasureError == [s |-> 0, c |-> 0 - 1]

\* no sentence index (idx counts from 0)
NoIndex == 0 - 1

NoResult3 == [kind |-> "none", path |-> NoPath, entry |-> NoEntry, error |-> NoError]

\* a plausible slip: a sentence without words is reported as a failure
SkipResult_AsError ==
    [kind |-> "error", path |-> NoPath, entry |-> NoEntry, error |-> NoError]

\* return idx, None, None
SkipResult == [NoResult3 EXCEPT !.kind = "skip"]

\* return idx, current_temp_file, sentence_timestamps
OkResult(i, path, words) ==
    [kind |-> "ok", path |-> path, entry |-> InitialEntry(i - 1, words),
     error |-> NoError]

\* return idx, None, e
ErrorResult(i, k) ==
    [kind |-> "error", path |-> NoPath, entry |-> NoEntry, error |-> [s |-> i, c |-> k]]

NewTask ==
    [pc |-> "new", chunks |-> <<>>, temp_chunk_files |-> <<>>,
     current_temp_file |-> NoPath, first_failed |-> 0, concat_fell_back |-> FALSE,
     result |-> NoResult3]

\* _process_sentence up to its first await; the event loop gives every task
\* its first step in the order in which gather created them, before it looks
\* at the network
Start(i) ==
    /\ gen_pc = "running"
    /\ task[i].pc = "new"
    /\ \A j \in 1..(i - 1) : task[j].pc # "new"
    /\ LET words == sentences[i].words
           chunks == ChunkWords(words)
           voiced == VoicedChunks(chunks)
           order == PickInOrder(voiced, 1, Len(chunks))
       IN  IF Len(words) = 0
           THEN /\ task' = [task EXCEPT ![i].pc = "done", ![i].result = SkipResult]
                /\ finish_order' = Append(finish_order, i)
                /\ UNCHANGED <<calls, files>>
           ELSE IF Len(chunks) = 1
           THEN /\ files' = [files EXCEPT ![SentPath(i)] = EmptyFile]
                /\ calls' = [calls EXCEPT ![SentPath(i)] = NewCall(i, 1, chunks[1])]
                /\ UNCHANGED finish_order
                /\ task' = [task EXCEPT ![i].pc = "await_single",
                                        ![i].chunks = chunks,
                                        ![i].current_temp_file = SentPath(i)]
           ELSE /\ files' = [p \in DOMAIN files |->
                                IF p = SentPath(i)
                                   \/ (p.kind = "chunk" /\ p.s = i /\ p.c \in voiced)
                                THEN EmptyFile ELSE files[p]]
                /\ calls' = [p \in DOMAIN calls |->
                                IF p.kind = "chunk" /\ p.s = i /\ p.c \in voiced
                                THEN NewCall(i, p.c, chunks[p.c]) ELSE calls[p]]
                /\ UNCHANGED finish_order
                /\ task' = [task EXCEPT
                               ![i].pc = "await_chunks",
                               ![i].chunks = chunks,
                               ![i].current_temp_file = SentPath(i),
                               ![i].temp_chunk_files =
                                   [j \in 1..Len(order) |-> ChunkPath(i, order[j])]]
    /\ UNCHANGED <<sentences, faults, final_combine, gen_pc, gen_result,
                   normVars, chunkVars, appVars, timeVars, runVars, estVars>>

\* a synthesis call completes: the audio is in the file it was given
SynthOk(p) ==
    /\ gen_pc = "running"
    /\ calls[p].status = "pending"
    /\ calls' = [calls EXCEPT ![p].status = "ok"]
    /\ files' = IF files[p].exists
                THEN [files EXCEPT ![p].data =
                         <<SynthesizedPiece(calls[p].s, calls[p].c, calls[p].text)>>]
                ELSE files
    /\ UNCHANGED <<sentences, task, finish_order, faults, final_combine, gen_pc,
                   gen_result, normVars, chunkVars, appVars, timeVars, runVars, estVars>>

\* a synthesis call raises (the engine rejects the request, the network fails)
SynthFail(p) ==
    /\ gen_pc = "running"
    /\ calls[p].status = "pending"
    /\ Cardinality({q \in CallPaths : calls[q].status = "failed"}) < MaxSynthFaults
    /\ UNCHANGED faults
    /\ calls' = [calls EXCEPT ![p].status = "failed"]
    /\ task' = [task EXCEPT ![calls[p].s].first_failed =
                    IF @ = 0 THEN calls[p].c ELSE @]
    /\ UNCHANGED <<sentences, files, finish_order, final_combine, gen_pc, gen_result,
                   normVars, chunkVars, appVars, timeVars, runVars, estVars>>

FailedAmong(paths) == {j \in 1..Len(paths) : calls[paths[j]].status = "failed"}

\* _process_sentence after the single call: build the entry, or catch the error
ResumeSingle(i) ==
    /\ gen_pc = "running"
    /\ task[i].pc = "await_single"
    /\ calls[SentPath(i)].status \in {"ok", "failed"}
    /\ task' = [task EXCEPT
                   ![i].pc = "done",
                   ![i].result =
                       IF calls[SentPath(i)].status = "ok"
                       THEN OkResult(i, SentPath(i), sentences[i].words)
                       ELSE ErrorResult(i, 1)]
    /\ finish_order' = Append(finish_order, i)
    /\ UNCHANGED <<sentences, calls, files, faults, final_combine,
                   gen_pc, gen_result, normVars, chunkVars, appVars, timeVars, runVars,
                   estVars>>

\* a plausible slip: the wait ends as soon as one chunk call has returned
ChunksGathered_FirstCompleted(tcf) ==
    \E j \in 1..Len(tcf) : calls[tcf[j]].status = "ok"

\* await asyncio.gather(*chunk_tasks) returns: every chunk call has returned
ChunksGathered(tcf) ==
    \A j \in 1..Len(tcf) : calls[tcf[j]].status = "ok"

\* _process_sentence after the gather of the chunk tasks: a failed call ends the
\* wait at once; otherwise the chunk clips are combined into the sentence clip;
\* finally the chunk files are unlinked
ResumeChunks(i) ==
    /\ gen_pc = "running"
    /\ task[i].pc = "await_chunks"
    /\ LET tcf == task[i].temp_chunk_files
       IN  \/ /\ FailedAmong(tcf) # {}
              /\ task' = [task EXCEPT
                             ![i].pc = "done",
                             ![i].result = ErrorResult(i, task[i].first_failed)]
              /\ files' = Unlink(files, tcf)
              /\ UNCHANGED faults
           \/ /\ ChunksGathered(tcf)
              /\ \E oc \in CombineOutcomes(Len(tcf)) :
                    /\ faults + OutcomeFaults(oc) <= MaxFaults
                    /\ faults' = faults + OutcomeFaults(oc)
                    /\ files' = Unlink(Combine(files, tcf, SentPath(i), ListPath(i), oc),
                                       tcf)
                    /\ task' = [task EXCEPT
                           ![i].pc = "done",
                           ![i].concat_fell_back = ~(Runnable(oc) /\ oc.concat_ok),
                           ![i].result = OkResult(i, SentPath(i), sentences[i].words)]
    /\ finish_order' = Append(finish_order, i)
    /\ UNCHANGED <<sentences, calls, final_combine, gen_pc, gen_result,
                   normVars, chunkVars, appVars, timeVars, runVars, estVars>>

(***************************************************************************)
(* generate_audio after the gather of the sentence tasks                             *)
(***************************************************************************)
\* a plausible slip: a failed sentence is passed over instead of raised
RECURSIVE ProcessResults_SkipErrors(_, _, _, _)
ProcessResults_SkipErrors(results, j, temp_files, timestamp_data) ==
    IF j > Len(results)
    THEN [failed |-> FALSE, error |-> NoError, idx |-> NoIndex,
          temp_files |-> temp_files, timestamp_data |-> timestamp_data]
    ELSE IF results[j].kind # "error" /\ results[j].path # NoPath
    THEN ProcessResults_SkipErrors(results, j + 1, Append(temp_files, results[j].path),
                                   Append(timestamp_data, results[j].entry))
    ELSE ProcessResults_SkipErrors(results, j + 1, temp_files, timestamp_data)

\* a plausible slip: the error of the last failed sentence is raised
ProcessResults_RaiseLast(results, j, temp_files, timestamp_data) ==
    LET failed == {k \in j..Len(results) : results[k].kind = "error"}
        last == CHOOSE k \in failed : \A m \in failed : m <= k
        kept == SelectSeq(results, LAMBDA r : r.path # NoPath)
    IN  IF failed # {}
        THEN [failed |-> TRUE, error |-> results[last].error, idx |-> last - 1,
              temp_files |-> [k \in 1..Len(kept) |-> kept[k].path],
              timestamp_data |-> timestamp_data]
        ELSE [failed |-> FALSE, error |-> NoError, idx |-> NoIndex,
              temp_files |-> [k \in 1..Len(kept) |-> kept[k].path],
              timestamp_data |-> [k \in 1..Len(kept) |-> kept[k].entry]]

\* for idx, temp_file_path, result in results: raise at the first error,
\* collect the clip and the entry of every sentence that has a clip
RECURSIVE ProcessResults(_, _, _, _)
ProcessResults(results, j, temp_files, timestamp_data) ==
    IF j > Len(results)
    THEN [failed |-> FALSE, error |-> NoError, idx |-> NoIndex,
          temp_files |-> temp_files, timestamp_data |-> timestamp_data]
    ELSE IF results[j].kind = "error"
    THEN [failed |-> TRUE, error |-> results[j].error, idx |-> j - 1,
          temp_files |-> temp_files, timestamp_data |-> timestamp_data]
    ELSE IF results[j].path # NoPath
    THEN ProcessResults(results, j + 1, Append(temp_files, results[j].path),
                        Append(timestamp_data, results[j].entry))
    ELSE ProcessResults(results, j + 1, temp_files, timestamp_data)

\* a plausible slip: the results are taken in the order the tasks finished
SortedResults_CompletionOrder ==
    [j \in 1..Len(finish_order) |-> task[finish_order[j]].result]

\* results.sort(key=lambda x: x[0]); gather returns the results in task order
SortedResults == [i \in 1..Len(sentences) |-> task[i].result]

\* what ffprobe and os.path.getsize answer for a clip
MeasureKinds == {"probe", "size", "none"}

MeasureFaults(kinds) == Cardinality({j \in DOMAIN kinds : kinds[j] # "probe"})

\* ffprobe cannot read a clip without audio
Measure(file, kind) ==
    IF kind = "probe" /\ Len(file.data) > 0
    THEN [probe_ok |-> TRUE, probe_us |-> DurationUs(file.data), size_ok |-> TRUE,
          file_size |-> 0]
    ELSE IF kind \in {"probe", "size"} /\ file.exists
    THEN [probe_ok |-> FALSE, probe_us |-> 0, size_ok |-> TRUE,
          file_size |-> FileSize(file.data)]
    ELSE [probe_ok |-> FALSE, probe_us |-> 0, size_ok |-> FALSE, file_size |-> 0]

\* the record of the final _combine_audio_files call: its outcome, its
\* input_files, and what each input file held when it was called (before)
\* and when it returned (after)
NotCombined ==
    [ran |-> FALSE, runnable |-> FALSE, raise_at |-> 0, trim_ok |-> <<>>,
     concat_ok |-> FALSE, inputs |-> <<>>, before |-> <<>>, after |-> <<>>]

\* what generate_audio hands to its caller: the returned pair, or the raised
\* exception (error is the engine's exception object, named here by the call
\* that raised it; error_index is the sentence index the exception carries)
NoReturn ==
    [output_path |-> NoPath, sentences |-> <<>>, error |-> NoError,
     error_index |-> NoIndex]

\* if isinstance(result, Exception): raise result
\* the idx of the result tuple is not put into the exception that is raised
RaisedError(idx, e) == [error |-> e, error_index |-> NoIndex]

\* messagebox.showerror("Error", f"Failed to generate audio:\n{str(e)}")
ShownError(raised) == [engine_error |-> raised.error, sentence_index |-> raised.error_index]

Collect ==
    /\ gen_pc = "running"
    /\ \A i \in 1..Len(sentences) : task[i].pc = "done"
    /\ LET pr == ProcessResults(SortedResults, 1, <<>>, <<>>)
           n == Len(pr.temp_files)
       IN  IF pr.failed
           THEN \* except: unlink the clips collected so far; raise e
                /\ files' = Unlink(files, pr.temp_files)
                /\ gen_pc' = "raised"
                /\ gen_result' = [NoReturn EXCEPT
                                      !.error = RaisedError(pr.idx, pr.error).error,
                                      !.error_index =
                                          RaisedError(pr.idx, pr.error).error_index]
                /\ UNCHANGED <<faults, final_combine, estVars>>
           ELSE \E oc \in CombineOutcomes(n), kinds \in [1..n -> MeasureKinds] :
                /\ faults + OutcomeFaults(oc) + MeasureFaults(kinds) <= MaxFaults
                /\ faults' = faults + OutcomeFaults(oc) + MeasureFaults(kinds)
                /\ LET combined == Combine(files, pr.temp_files, OutPath, ListPath(0), oc)
                       meas == [j \in 1..n |->
                                   Measure(combined[pr.temp_files[j]], kinds[j])]
                       r == EstimateTimestamps(meas, pr.timestamp_data)
                   IN  /\ files' = Unlink(combined, pr.temp_files)
                       /\ est_meas' = meas
                       /\ est_initial' = r.initial
                       /\ est_out' = r.timestamps
                       /\ est_pc' = IF r.raised THEN "raised" ELSE "done"
                       /\ gen_result' =
                              IF r.raised
                              THEN [NoReturn EXCEPT !.error = MeasureError]
                              ELSE [NoReturn EXCEPT !.output_path = OutPath,
                                                    !.sentences = r.timestamps]
                       /\ gen_pc' = IF r.raised THEN "raised" ELSE "returned"
                /\ final_combine' =
                       [ran |-> TRUE, runnable |-> Runnable(oc),
                        raise_at |-> oc.raise_at, trim_ok |-> oc.trim_ok,
                        concat_ok |-> oc.concat_ok, inputs |-> pr.temp_files,
                        before |-> [j \in 1..n |-> files[pr.temp_files[j]].data],
                        after |-> [j \in 1..n |->
                                      Combine(files, pr.temp_files, OutPath,
                                              ListPath(0), oc)[pr.temp_files[j]].data]]
    /\ UNCHANGED <<sentences, task, calls, finish_order, normVars, chunkVars, appVars,
                   timeVars, runVars>>

(***************************************************************************)
(* Word material                                                           *)
(***************************************************************************)
TextHi == <<"H", "i">>

TextDot == <<".">>

PitchDefault == <<"+", "0", "H", "z">>

PitchHigh == <<"+", "5", "0", "H", "z">>

RateDefault == <<"+", "0", "%">>

RateFast == <<"+", "1", "0", "%">>

\* what a user types into the word's pitch entry without the sign
PitchUnsigned == <<"5", "0", "H", "z">>

ChunkerWords ==
    [text : {TextHi, TextDot}, pitch : {PitchDefault, PitchHigh, PitchUnsigned},
     rate : {RateDefault, RateFast}]

(***************************************************************************)
(* Harnesses for the two pure helpers                                      *)
(***************************************************************************)
Alphabet == {"+", "-", "1", "5", "H", "z", "%", " ", "x"}

UnitOf(ptype) == IF ptype = "rate" THEN <<"%">> ELSE <<"H", "z">>

\* the textual form "+N" / "-N" followed by the unit
Render(n, ptype) == FormatSigned(n) \o UnitOf(ptype)

Scenarios == {999, 0 - 999, 150}

RenderedInts == (0 - MaxN)..MaxN \cup Scenarios

NoResult == [raised |-> FALSE, ret |-> <<"?">>]

NormIdle ==
    /\ val_str = <<>>
    /\ param_type = "pitch"
    /\ norm_out = NoResult
    /\ norm_out2 = NoResult
    /\ norm_pc = "idle"

ChunkIdle ==
    /\ ck_words = <<>>
    /\ ck_chunks = <<>>
    /\ ck_pc = "idle"

EstIdle ==
    /\ est_meas = <<>>
    /\ est_initial = <<>>
    /\ est_out = <<>>
    /\ est_pc = "idle"

GenIdle ==
    /\ sentences = <<>>
    /\ task = <<>>
    /\ calls = [p \in CallPaths |-> NoCall]
    /\ files = [p \in AllPaths |-> Absent]
    /\ finish_order = <<>>
    /\ faults = 0
    /\ final_combine = NotCombined
    /\ gen_pc = "idle"
    /\ gen_result = NoReturn

RunsIdle ==
    /\ rn_nsent = <<>>
    /\ rn_pc = <<>>
    /\ rn_created = <<>>
    /\ rn_temp_files = <<>>
    /\ rn_pos = <<>>
    /\ rn_disk = <<>>
    /\ rn_foreign = {}

AppIdle ==
    /\ voice_var = ""
    /\ pitch_var = <<>>
    /\ rate_var = <<>>
    /\ title_entry = <<>>
    /\ app_sentences = <<>>
    /\ app_requests = 0
    /\ app_started = 0
    /\ app_shown = ""

TimeIdle ==
    /\ tm_ms = 0
    /\ tm_srt = <<>>
    /\ tm_vtt = <<>>
    /\ tm_back = 0
    /\ tm_pc = "idle"

InitNorm ==
    /\ param_type \in {"pitch", "rate"}
    /\ \/ \E n \in RenderedInts : val_str = Render(n, param_type)
       \/ val_str \in SeqsUpTo(Alphabet, MaxStr)
    /\ norm_out = NoResult
    /\ norm_out2 = NoResult
    /\ norm_pc = "ready"
    /\ ChunkIdle
    /\ EstIdle
    /\ GenIdle
    /\ RunsIdle
    /\ AppIdle
    /\ TimeIdle

Validate ==
    /\ norm_pc = "ready"
    /\ norm_out' = ValidateParam(val_str, param_type)
    /\ norm_pc' = "once"
    /\ UNCHANGED <<val_str, param_type, norm_out2, chunkVars, appVars,
                   timeVars, runVars, estVars, genVars>>

Revalidate ==
    /\ norm_pc = "once"
    /\ ~norm_out.raised
    /\ norm_out2' = ValidateParam(norm_out.ret, param_type)
    /\ norm_pc' = "twice"
    /\ UNCHANGED <<val_str, param_type, norm_out, chunkVars, appVars,
                   timeVars, runVars, estVars, genVars>>

NextNorm == Validate \/ Revalidate

SpecNorm == InitNorm /\ [][NextNorm]_vars

InitChunk ==
    /\ ck_words \in SeqsUpTo(ChunkerWords, MaxChunkWords)
    /\ ck_chunks = <<>>
    /\ ck_pc = "ready"
    /\ NormIdle
    /\ EstIdle
    /\ GenIdle
    /\ RunsIdle
    /\ AppIdle
    /\ TimeIdle

GroupWords ==
    /\ ck_pc = "ready"
    /\ ck_chunks' = ChunkWords(ck_words)
    /\ ck_pc' = "done"
    /\ UNCHANGED <<ck_words, normVars, appVars, timeVars, estVars, genVars, runVars>>

NextChunk == GroupWords

SpecChunk == InitChunk /\ [][NextChunk]_vars

\* what ffprobe and os.path.getsize can answer for one clip
ProbeUs == {1001000, 1500500}

FileSizes == {0, 3001}

ProbeAnswers ==
    {[probe_ok |-> TRUE, probe_us |-> u, size_ok |-> TRUE, file_size |-> 0] :
        u \in ProbeUs}

SizeAnswers ==
    {[probe_ok |-> FALSE, probe_us |-> 0, size_ok |-> TRUE, file_size |-> z] :
        z \in FileSizes}

NoAnswer == [probe_ok |-> FALSE, probe_us |-> 0, size_ok |-> FALSE, file_size |-> 0]

Measurements == ProbeAnswers \cup SizeAnswers \cup {NoAnswer}

EstimatorWords ==
    [text : {TextHi, TextDot}, image : {NoAttachment}, audio : {NoAttachment}]

\* generate_audio hands over one preliminary entry per clip, each with at
\* least one word, in sentence order
InitEst ==
    /\ \E n \in 0..MaxEstSent :
          /\ est_meas \in [1..n -> Measurements]
          /\ \E ws \in [1..n -> SeqsUpTo(EstimatorWords, MaxEstWords) \ {<<>>}] :
                est_initial = [i \in 1..n |-> InitialEntry(i - 1, ws[i])]
    /\ est_out = <<>>
    /\ est_pc = "ready"
    /\ NormIdle
    /\ ChunkIdle
    /\ GenIdle
    /\ RunsIdle
    /\ AppIdle
    /\ TimeIdle

Estimate ==
    /\ est_pc = "ready"
    /\ LET r == EstimateTimestamps(est_meas, est_initial)
       IN  /\ est_out' = r.timestamps
           /\ est_initial' = r.initial
           /\ est_pc' = IF r.raised THEN "raised" ELSE "done"
    /\ UNCHANGED <<est_meas, normVars, chunkVars, appVars, timeVars, runVars, genVars>>

NextEst == Estimate

SpecEst == InitEst /\ [][NextEst]_vars

\* the estimator on words that carry an image or a sound effect
OffsetBefore == 0 - 1000

OffsetAfter == 250

Attached(has_start, start_ms) ==
    [has_path |-> TRUE, has_start |-> has_start, start_ms |-> start_ms]

DecoratedWords ==
    {[text |-> TextHi, image |-> NoAttachment, audio |-> NoAttachment],
     [text |-> TextHi, image |-> Attached(FALSE, 0), audio |-> NoAttachment],
     [text |-> TextHi, image |-> Attached(TRUE, OffsetBefore), audio |-> NoAttachment],
     [text |-> TextHi, image |-> NoAttachment, audio |-> Attached(TRUE, OffsetBefore)],
     [text |-> TextHi, image |-> Attached(TRUE, OffsetAfter),
      audio |-> Attached(TRUE, OffsetBefore)]}

DecoMeasurements ==
    {[probe_ok |-> TRUE, probe_us |-> 1001000, size_ok |-> TRUE, file_size |-> 0],
     [probe_ok |-> FALSE, probe_us |-> 0, size_ok |-> TRUE, file_size |-> 3001],
     NoAnswer}

InitDeco ==
    /\ \E n \in 0..MaxDecoSent :
          /\ est_meas \in [1..n -> DecoMeasurements]
          /\ \E ws \in [1..n -> SeqsUpTo(DecoratedWords, MaxDecoWords) \ {<<>>}] :
                est_initial = [i \in 1..n |-> InitialEntry(i - 1, ws[i])]
    /\ est_out = <<>>
    /\ est_pc = "ready"
    /\ NormIdle
    /\ ChunkIdle
    /\ GenIdle
    /\ RunsIdle
    /\ AppIdle
    /\ TimeIdle

SpecDeco == InitDeco /\ [][NextEst]_vars

\* a generation run: every sentence has its task, nothing is on disk yet
PipelineWords ==
    [text : {TextHi, TextDot}, pitch : {PitchDefault, PitchHigh}, rate : {RateDefault},
     image : {NoAttachment}, audio : {NoAttachment}]

RECURSIVE ScriptWords(_)
ScriptWords(ss) ==
    IF Len(ss) = 0 THEN 0 ELSE Len(Head(ss).words) + ScriptWords(Tail(ss))

Init ==
    /\ sentences \in SeqsUpTo([words : SeqsUpTo(PipelineWords, MaxScriptWords)], MaxSent)
    /\ ScriptWords(sentences) <= MaxScriptWords
    /\ task = [i \in 1..Len(sentences) |-> NewTask]
    /\ calls = [p \in CallPaths |-> NoCall]
    /\ files = [p \in AllPaths |-> Absent]
    /\ finish_order = <<>>
    /\ faults = 0
    /\ final_combine = NotCombined
    /\ gen_pc = "running"
    /\ gen_result = NoReturn
    /\ NormIdle
    /\ ChunkIdle
    /\ EstIdle
    /\ RunsIdle
    /\ AppIdle
    /\ TimeIdle

Next ==
    \/ \E i \in 1..Len(sentences) : Start(i)
    \/ \E p \in CallPaths : SynthOk(p)
    \/ \E p \in CallPaths : SynthFail(p)
    \/ \E i \in 1..Len(sentences) : ResumeSingle(i)
    \/ \E i \in 1..Len(sentences) : ResumeChunks(i)
    \/ Collect

Spec == Init /\ [][Next]_vars

(***************************************************************************)
(* Two generate_audio runs side by side                                    *)
(* VSubApp.generate_audio starts one thread with its own event loop per    *)
(* request, so two runs can interleave at every file operation.  Only what *)
(* decides which files a run touches is kept: the names its sentence tasks *)
(* create, its temp_files list, the write-back of the final combine and    *)
(* the two cleanup loops.  Every sentence has words and one chunk.         *)
(***************************************************************************)
Runs == {1, 2}

\* the names tempfile.NamedTemporaryFile can hand out
TempNames == 1..(Cardinality(Runs) * MaxRunSent)

\* a plausible slip: one module-level temp_files list for all runs
ListOf_Global(r) == 1

\* temp_files = [] is a local of the generate_audio call
ListOf(r) == r

\* the paths of the sequence ps that hold a file of a run other than r
ForeignHits(r, ps) ==
    {[by |-> r, name |-> ps[j], owner |-> rn_disk[ps[j]]] :
        j \in {k \in 1..Len(ps) : rn_disk[ps[k]] \notin {0, r}}}

\* tempfile.NamedTemporaryFile(suffix='.mp3', delete=False): a name that no
\* file has at that moment
RunCreateTemp(r) ==
    /\ rn_pc[r] = "tasks"
    /\ Len(rn_created[r]) < rn_nsent[r]
    /\ \E name \in TempNames :
          /\ rn_disk[name] = 0
          /\ rn_disk' = [rn_disk EXCEPT ![name] = r]
          /\ rn_created' = [rn_created EXCEPT ![r] = Append(@, name)]
    /\ UNCHANGED <<rn_nsent, rn_pc, rn_temp_files, rn_pos, rn_foreign,
                   normVars, chunkVars, appVars, timeVars, estVars, genVars>>

\* the results loop: the clips of the sentences before the first failed one
\* (first_failed = 0: none failed) are appended to temp_files
RunResults(r) ==
    /\ rn_pc[r] = "tasks"
    /\ Len(rn_created[r]) = rn_nsent[r]
    /\ \E first_failed \in 0..rn_nsent[r] :
          LET kept == IF first_failed = 0 THEN rn_nsent[r] ELSE first_failed - 1
          IN  /\ rn_temp_files' =
                     [rn_temp_files EXCEPT ![ListOf(r)] =
                         @ \o SubSeq(rn_created[r], 1, kept)]
              /\ rn_pc' = [rn_pc EXCEPT ![r] =
                              IF first_failed = 0 THEN "combine" ELSE "except"]
    /\ UNCHANGED <<rn_nsent, rn_created, rn_pos, rn_disk, rn_foreign,
                   normVars, chunkVars, appVars, timeVars, estVars, genVars>>

\* self._combine_audio_files(temp_files, output_path): the trimmed copies are
\* moved over the files named in temp_files
RunCombine(r) ==
    /\ rn_pc[r] = "combine"
    /\ rn_foreign' = rn_foreign \cup ForeignHits(r, rn_temp_files[ListOf(r)])
    /\ rn_pc' = [rn_pc EXCEPT ![r] = "cleanup"]
    /\ UNCHANGED <<rn_nsent, rn_created, rn_temp_files, rn_pos, rn_disk,
                   normVars, chunkVars, appVars, timeVars, estVars, genVars>>

\* for temp_file in temp_files: os.unlink(temp_file), one file per step
RunUnlink(r) ==
    /\ rn_pc[r] \in {"cleanup", "except"}
    /\ rn_pos[r] <= Len(rn_temp_files[ListOf(r)])
    /\ LET name == rn_temp_files[ListOf(r)][rn_pos[r]]
       IN  /\ rn_foreign' = rn_foreign \cup ForeignHits(r, <<name>>)
           /\ rn_disk' = [rn_disk EXCEPT ![name] = 0]
    /\ rn_pos' = [rn_pos EXCEPT ![r] = @ + 1]
    /\ UNCHANGED <<rn_nsent, rn_pc, rn_created, rn_temp_files,
                   normVars, chunkVars, appVars, timeVars, estVars, genVars>>

\* return output_path, project_data / raise e
RunFinish(r) ==
    /\ rn_pc[r] \in {"cleanup", "except"}
    /\ rn_pos[r] > Len(rn_temp_files[ListOf(r)])
    /\ rn_pc' = [rn_pc EXCEPT ![r] = IF @ = "cleanup" THEN "returned" ELSE "raised"]
    /\ UNCHANGED <<rn_nsent, rn_created, rn_temp_files, rn_pos, rn_disk, rn_foreign,
                   normVars, chunkVars, appVars, timeVars, estVars, genVars>>

InitRuns ==
    /\ rn_nsent \in [Runs -> 0..MaxRunSent]
    /\ rn_pc = [r \in Runs |-> "tasks"]
    /\ rn_created = [r \in Runs |-> <<>>]
    /\ rn_temp_files = [r \in Runs |-> <<>>]
    /\ rn_pos = [r \in Runs |-> 1]
    /\ rn_disk = [name \in TempNames |-> 0]
    /\ rn_foreign = {}
    /\ NormIdle
    /\ ChunkIdle
    /\ EstIdle
    /\ GenIdle
    /\ AppIdle
    /\ TimeIdle

NextRuns ==
    \/ \E r \in Runs : RunCreateTemp(r)
    \/ \E r \in Runs : RunResults(r)
    \/ \E r \in Runs : RunCombine(r)
    \/ \E r \in Runs : RunUnlink(r)
    \/ \E r \in Runs : RunFinish(r)

SpecRuns == InitRuns /\ [][NextRuns]_vars

(***************************************************************************)
(* The editor: VSubApp around generator.sentences                          *)
(* Only what decides the prosody handed to the generator is kept: the      *)
(* global widgets, the title entry, the sentences with their words, and    *)
(* the Generate Audio handler up to the start of its thread.               *)
(***************************************************************************)
DefaultVoice == "en-US-ChristopherNeural"

Voices == {DefaultVoice, "en-US-AriaNeural"}

GlobalPitches == {PitchDefault, PitchHigh}

GlobalRates == {RateDefault, RateFast}

Titles == {<<>>, <<" ">>, <<"x">>}

\* WordSettings(text=word): pitch "+0Hz", rate "+0%"
NewWord == [pitch |-> PitchDefault, rate |-> RateDefault, custom |-> FALSE]

RECURSIVE SumSeq(_)
SumSeq(ns) == IF Len(ns) = 0 THEN 0 ELSE Head(ns) + SumSeq(Tail(ns))

\* VSubApp.parse_text: new sentences with the global settings, new words
ParseText ==
    /\ \E shape \in SeqsUpTo(1..MaxAppWords, MaxAppSent) :
          /\ Len(shape) > 0
          /\ SumSeq(shape) <= MaxAppWords
          /\ app_sentences' =
                 [i \in 1..Len(shape) |->
                     [voice |-> voice_var, pitch |-> pitch_var, rate |-> rate_var,
                      words |-> [k \in 1..shape[i] |-> NewWord]]]
    /\ UNCHANGED <<voice_var, pitch_var, rate_var, title_entry, app_requests,
                   app_started, app_shown>>
    /\ UNCHANGED <<normVars, chunkVars, estVars, genVars, runVars, timeVars>>

\* the user picks a global voice, pitch and rate
SetGlobals ==
    /\ \E v \in Voices, p \in GlobalPitches, r \in GlobalRates :
          /\ <<v, p, r>> # <<voice_var, pitch_var, rate_var>>
          /\ voice_var' = v
          /\ pitch_var' = p
          /\ rate_var' = r
    /\ UNCHANGED <<title_entry, app_sentences, app_requests, app_started, app_shown>>
    /\ UNCHANGED <<normVars, chunkVars, estVars, genVars, runVars, timeVars>>

\* the user types into the title entry
SetTitle ==
    /\ \E t \in Titles : t # title_entry /\ title_entry' = t
    /\ UNCHANGED <<voice_var, pitch_var, rate_var, app_sentences, app_requests,
                   app_started, app_shown>>
    /\ UNCHANGED <<normVars, chunkVars, estVars, genVars, runVars, timeVars>>

\* apply_word_settings: the selected word takes the two entries' texts
ApplyWordSettings ==
    /\ \E i \in 1..Len(app_sentences) :
       \E k \in 1..Len(app_sentences[i].words) :
       \E p \in GlobalPitches, r \in GlobalRates :
          app_sentences' =
              [app_sentences EXCEPT ![i].words[k] =
                   [pitch |-> p, rate |-> r, custom |-> TRUE]]
    /\ UNCHANGED <<voice_var, pitch_var, rate_var, title_entry, app_requests,
                   app_started, app_shown>>
    /\ UNCHANGED <<normVars, chunkVars, estVars, genVars, runVars, timeVars>>

\* if word.pitch == "+0Hz": word.pitch = global_pitch, and the same for rate
PropagateWord(word, global_pitch, global_rate) ==
    [word EXCEPT
        !.pitch = IF @ = PitchDefault THEN global_pitch ELSE @,
        !.rate = IF @ = RateDefault THEN global_rate ELSE @]

\* for sentence in self.generator.sentences: ...
PropagateGlobals(ss, global_voice, global_pitch, global_rate) ==
    [i \in 1..Len(ss) |->
        [voice |-> global_voice, pitch |-> global_pitch, rate |-> global_rate,
         words |-> [k \in 1..Len(ss[i].words) |->
                       PropagateWord(ss[i].words[k], global_pitch, global_rate)]]]

\* title = self.title_entry.get().strip()
StripTitle(t) == RStrip(LStrip(t))

\* VSubApp.generate_audio, up to the start of the generation thread
GenerateAudio ==
    /\ app_requests < MaxGenerations
    /\ app_requests' = app_requests + 1
    /\ IF Len(app_sentences) = 0
       THEN /\ app_shown' = "No Sentences"
            /\ UNCHANGED <<app_sentences, app_started>>
       ELSE /\ app_sentences' =
                   PropagateGlobals(app_sentences, voice_var, pitch_var, rate_var)
            /\ IF StripTitle(title_entry) = <<>>
               THEN /\ app_shown' = "Missing Title"
                    /\ UNCHANGED app_started
               ELSE /\ app_shown' = ""
                    /\ app_started' = app_started + 1
    /\ UNCHANGED <<voice_var, pitch_var, rate_var, title_entry>>
    /\ UNCHANGED <<normVars, chunkVars, estVars, genVars, runVars, timeVars>>

InitApp ==
    /\ voice_var = DefaultVoice
    /\ pitch_var = PitchDefault
    /\ rate_var = RateDefault
    /\ title_entry = <<>>
    /\ app_sentences = <<>>
    /\ app_requests = 0
    /\ app_started = 0
    /\ app_shown = ""
    /\ NormIdle
    /\ ChunkIdle
    /\ EstIdle
    /\ GenIdle
    /\ RunsIdle
    /\ TimeIdle

NextApp ==
    \/ ParseText
    \/ SetGlobals
    \/ SetTitle
    \/ ApplyWordSettings
    \/ GenerateAudio

SpecApp == InitApp /\ [][NextApp]_vars

(***************************************************************************)
(* Time codes: _ms_to_srt_time, _ms_to_vtt_time, _srt_time_to_ms           *)
(***************************************************************************)
MS_PER_SECOND == 1000

MS_PER_MINUTE == 60000

MS_PER_HOUR == 3600000

\* f"{n:0{width}d}" for n >= 0
RECURSIVE ZeroPad(_, _)
ZeroPad(digits, width) ==
    IF Len(digits) >= width THEN digits ELSE ZeroPad(<<"0">> \o digits, width)

\* f"{hours:02d}:{minutes:02d}:{seconds:02d}{sep}{milliseconds:03d}"
FormatTime(hours, minutes, seconds, milliseconds, sep) ==
    ZeroPad(NatToDigits(hours), 2) \o <<":">> \o ZeroPad(NatToDigits(minutes), 2)
        \o <<":">> \o ZeroPad(NatToDigits(seconds), 2) \o <<sep>>
        \o ZeroPad(NatToDigits(milliseconds), 3)

\* a plausible slip: the minutes are not taken out before the seconds
MsToSrtTime_MinutesLeftIn(ms) ==
    LET hours == ms \div MS_PER_HOUR
        ms1 == ms % MS_PER_HOUR
        minutes == ms1 \div MS_PER_MINUTE
        seconds == ms1 \div MS_PER_SECOND
        milliseconds == ms1 % MS_PER_SECOND
    IN  FormatTime(hours, minutes, seconds, milliseconds, ",")

\* _ms_to_srt_time
MsToSrtTime(ms) ==
    LET hours == ms \div MS_PER_HOUR
        ms1 == ms % MS_PER_HOUR
        minutes == ms1 \div MS_PER_MINUTE
        ms2 == ms1 % MS_PER_MINUTE
        seconds == ms2 \div MS_PER_SECOND
        milliseconds == ms2 % MS_PER_SECOND
    IN  FormatTime(hours, minutes, seconds, milliseconds, ",")

\* _ms_to_vtt_time
MsToVttTime(ms) ==
    LET hours == ms \div MS_PER_HOUR
        ms1 == ms % MS_PER_HOUR
        minutes == ms1 \div MS_PER_MINUTE
        ms2 == ms1 % MS_PER_MINUTE
        seconds == ms2 \div MS_PER_SECOND
        milliseconds == ms2 % MS_PER_SECOND
    IN  FormatTime(hours, minutes, seconds, milliseconds, ".")

\* str.replace(a, b) for one-character a and b
ReplaceChar(str, a, b) == [j \in 1..Len(str) |-> IF str[j] = a THEN b ELSE str[j]]

\* str.split(c) for a one-character separator
RECURSIVE SplitOn(_, _, _)
SplitOn(str, c, current) ==
    IF Len(str) = 0 THEN <<current>>
    ELSE IF Head(str) = c THEN <<current>> \o SplitOn(Tail(str), c, <<>>)
    ELSE SplitOn(Tail(str), c, Append(current, Head(str)))

\* _srt_time_to_ms: any exception (not four parts, a part that is no integer)
\* gives 0
SrtTimeToMs(srt_time) ==
    LET time_parts == SplitOn(ReplaceChar(srt_time, ",", ":"), ":", <<>>)
        ints == [j \in 1..Len(time_parts) |-> PyInt(time_parts[j])]
    IN  IF Len(time_parts) = 4 /\ \A j \in 1..4 : ints[j].ok
        THEN (ints[1].val * 3600 + ints[2].val * 60 + ints[3].val) * 1000 + ints[4].val
        ELSE 0

\* instants at the turn of a second, a minute, an hour, a hundred hours
TimeScenarios ==
    {999, 1000, 59999, 60000, 61001, 3599999, 3600000, 3661001, 359999999,
     360000000}

InitTime ==
    /\ tm_ms \in 0..MaxMs \cup TimeScenarios
    /\ tm_srt = <<>>
    /\ tm_vtt = <<>>
    /\ tm_back = 0
    /\ tm_pc = "ready"
    /\ NormIdle
    /\ ChunkIdle
    /\ EstIdle
    /\ GenIdle
    /\ RunsIdle
    /\ AppIdle

RenderTime ==
    /\ tm_pc = "ready"
    /\ tm_srt' = MsToSrtTime(tm_ms)
    /\ tm_vtt' = MsToVttTime(tm_ms)
    /\ tm_pc' = "rendered"
    /\ UNCHANGED <<tm_ms, tm_back>>
    /\ UNCHANGED <<normVars, chunkVars, estVars, genVars, runVars, appVars>>

ParseTime ==
    /\ tm_pc = "rendered"
    /\ tm_back' = SrtTimeToMs(tm_srt)
    /\ tm_pc' = "parsed"
    /\ UNCHANGED <<tm_ms, tm_srt, tm_vtt>>
    /\ UNCHANGED <<normVars, chunkVars, estVars, genVars, runVars, appVars>>

NextTime == RenderTime \/ ParseTime

SpecTime == InitTime /\ [][NextTime]_vars

(***************************************************************************)
(* Claims about the segment chunker (SpecChunk)                            *)
(***************************************************************************)
RECURSIVE Flatten(_)
Flatten(ss) == IF Len(ss) = 0 THEN <<>> ELSE Head(ss) \o Flatten(Tail(ss))

WordTexts(words) == [i \in 1..Len(words) |-> words[i].text]

\* number of maximal runs of consecutive words with identical (pitch, rate)
NumRuns(words) ==
    IF Len(words) = 0 THEN 0
    ELSE 1 + Cardinality({i \in 1..(Len(words) - 1) :
                 <<words[i].pitch, words[i].rate>>
                     # <<words[i + 1].pitch, words[i + 1].rate>>})

\* C1: for a sentence with at least one word, concatenating the chunks' word
\* lists in order gives back the word sequence exactly, no chunk is empty, and
\* there are as many chunks as maximal runs of equal (pitch, rate).
C1_ChunkPartition ==
    (ck_pc = "done" /\ Len(ck_words) > 0) =>
        /\ Flatten([k \in 1..Len(ck_chunks) |-> ck_chunks[k].words])
               = WordTexts(ck_words)
        /\ \A k \in 1..Len(ck_chunks) : Len(ck_chunks[k].words) > 0
        /\ Len(ck_chunks) = NumRuns(ck_words)

\* a sentence whose prosody changes twice has been grouped into three chunks
C1_Witness ==
    /\ ck_pc = "done"
    /\ Len(ck_words) = 4
    /\ Len(ck_chunks) = 3
    /\ ck_words[1].rate # ck_words[2].rate
    /\ ck_words[1].pitch = ck_words[2].pitch

(***************************************************************************)
(* Claims about the parameter normalizer (SpecNorm)                        *)
(***************************************************************************)
RangeOf(ptype) ==
    IF ptype = "rate" THEN RATE_MIN..RATE_MAX ELSE PITCH_MIN..PITCH_MAX

IsRenderingOf(s, n) == s = Render(n, param_type)

\* C9: normalizing the rendering of any integer N yields the rendering of a
\* value inside the range of the parameter (pitch [-100,100], rate [-50,100]);
\* an in-range rendering comes back unchanged; and normalizing the result of
\* a normalization returns it unchanged.
C9_ClampIdempotent ==
    /\ norm_pc \in {"once", "twice"} =>
          \A n \in RenderedInts : IsRenderingOf(val_str, n) =>
              /\ \E m \in RangeOf(param_type) : IsRenderingOf(norm_out.ret, m)
              /\ n \in RangeOf(param_type) => norm_out.ret = val_str
    /\ (norm_pc \in {"once", "twice"} /\ val_str = Render(150, "rate")
           /\ param_type = "rate") => norm_out.ret = Render(100, "rate")
    /\ (norm_pc \in {"once", "twice"} /\ val_str = Render(0 - 999, "pitch")
           /\ param_type = "pitch") => norm_out.ret = Render(0 - 100, "pitch")
    /\ norm_pc = "twice" => norm_out2 = norm_out

\* a rate below the range was normalized, and normalized once more
C9_Witness ==
    /\ norm_pc = "twice"
    /\ param_type = "rate"
    /\ val_str = Render(0 - 80, "rate")
    /\ norm_out.ret = Render(0 - 50, "rate")

Unparseable(s) == ~PyInt(NumStr(s)).ok

\* C10: the normalizer never raises, and an input whose signed integer cannot
\* be parsed comes back unchanged.
C10_FailOpen ==
    norm_pc \in {"once", "twice"} =>
        /\ ~norm_out.raised
        /\ Unparseable(val_str) => norm_out.ret = val_str

\* a malformed value went through the normalizer
C10_Witness ==
    /\ norm_pc = "once"
    /\ val_str = <<"5", "-", "H">>
    /\ norm_out.ret = val_str

(***************************************************************************)
(* Claims about the timestamp estimator (SpecEst)                          *)
(***************************************************************************)
Measured(i) == MeasureDuration(est_meas[i]).ok

DurationOf(i) == MeasureDuration(est_meas[i]).duration_ms

\* C6: in every entry written from a measured duration D, each word's end_ms
\* is the next word's start_ms, word starts never decrease, no word has a
\* negative duration, and the word durations add up to D within 1 ms per word.
C6_WordPartition ==
    est_pc = "done" =>
        \A i \in 1..Len(est_out) : Measured(i) =>
            LET ws == est_out[i].words
                n == Len(ws)
                total == ws[n].end_ms - ws[1].start_ms
                D == DurationOf(i)
            IN  /\ \A k \in 1..(n - 1) :
                      /\ ws[k].end_ms = ws[k + 1].start_ms
                      /\ ws[k].start_ms <= ws[k + 1].start_ms
                /\ \A k \in 1..n : ws[k].start_ms <= ws[k].end_ms
                /\ Abs(total * D.d - D.n) <= n * D.d

\* a two-word sentence measured at 1500.5 ms by the byte-size heuristic
C6_Witness ==
    /\ est_pc = "done"
    /\ Len(est_out) >= 1
    /\ ~est_meas[1].probe_ok /\ est_meas[1].size_ok /\ est_meas[1].file_size = 3001
    /\ Len(est_out[1].words) = 2
    /\ est_out[1].words[1].end_ms > 0
    /\ est_out[1].words[2].end_ms = 1500

\* C7 as stated: every entry of the returned document follows one running
\* cursor: the first starts at 0, each end_ms is start_ms plus the measured
\* duration (up to truncation to whole milliseconds), and each next entry
\* starts where the previous one ends.
C7_AsStated ==
    est_pc = "done" =>
        /\ Len(est_out) > 0 => est_out[1].start_ms = 0
        /\ \A i \in 1..Len(est_out) : Measured(i) =>
              LET D == DurationOf(i)
                  span == est_out[i].end_ms - est_out[i].start_ms
              IN  Abs(span * D.d - D.n) < D.d
        /\ \A i \in 1..(Len(est_out) - 1) :
              est_out[i + 1].start_ms = est_out[i].end_ms

\* the measured entries before position i, and the last of them
MeasuredBefore(i) == {j \in 1..(i - 1) : Measured(j)}

LastMeasuredBefore(i) ==
    CHOOSE j \in MeasuredBefore(i) : \A k \in MeasuredBefore(i) : k <= j

\* C7 (amended): the entries written from a measured duration follow one
\* running cursor: the first of them starts at 0, each spans its measured
\* duration up to truncation to whole milliseconds, and each starts where
\* the previous measured entry ends; an entry whose measurement failed is
\* the preliminary entry, with its placeholder interval, and does not move
\* the cursor.
C7_MeasuredCursor ==
    est_pc = "done" =>
        /\ Len(est_out) = Len(est_meas)
        /\ \A i \in 1..Len(est_out) :
              IF Measured(i)
              THEN /\ LET D == DurationOf(i)
                          span == est_out[i].end_ms - est_out[i].start_ms
                      IN  Abs(span * D.d - D.n) < D.d
                   /\ est_out[i].start_ms =
                          IF MeasuredBefore(i) = {} THEN 0
                          ELSE est_out[LastMeasuredBefore(i)].end_ms
              ELSE /\ est_out[i].start_ms = (i - 1) * PLACEHOLDER_MS
                   /\ est_out[i].end_ms = i * PLACEHOLDER_MS

\* a measured entry follows an entry that fell back to the preliminary data
C7_Witness ==
    /\ est_pc = "done"
    /\ Len(est_out) = 2
    /\ ~Measured(1)
    /\ Measured(2)
    /\ est_out[2].start_ms = 0
    /\ est_out[2].end_ms = 1001

\* C15: _estimate_timestamps never raises and returns one entry per clip, in
\* clip order; the entry of a clip whose probe answered spans the probed
\* duration, the entry of a clip whose probe failed spans the duration the
\* byte size gives (2000 ms for an empty file), and the entry of a clip that
\* could not be measured at all is its preliminary entry.
C15_MeasurementNeverFatal ==
    /\ est_pc # "raised"
    /\ est_pc = "done" =>
          /\ Len(est_out) = Len(est_meas)
          /\ \A i \in 1..Len(est_out) :
                LET m == est_meas[i]
                    e == est_out[i]
                    span == e.end_ms - e.start_ms
                IN  /\ e.sentence_index = i - 1
                    /\ m.probe_ok => Abs(span * 1000 - m.probe_us) < 1000
                    /\ (~m.probe_ok /\ m.size_ok /\ m.file_size > 0) =>
                           Abs(span * BYTES_PER_SECOND - m.file_size * 1000)
                               < BYTES_PER_SECOND
                    /\ (~m.probe_ok /\ m.size_ok /\ m.file_size = 0) =>
                           span = DEFAULT_DURATION_MS
                    /\ (~m.probe_ok /\ ~m.size_ok) =>
                           /\ e.start_ms = (i - 1) * PLACEHOLDER_MS
                           /\ e.end_ms = i * PLACEHOLDER_MS
                           /\ \A k \in 1..Len(e.words) :
                                 e.words[k].start_ms = 0 /\ e.words[k].end_ms = 0

\* the first clip could not be measured at all, the second only by its size
C15_Witness ==
    /\ est_pc = "done"
    /\ Len(est_out) = 2
    /\ est_meas[1] = NoAnswer
    /\ ~est_meas[2].probe_ok /\ est_meas[2].size_ok /\ est_meas[2].file_size > 0
    /\ est_out[1].end_ms = PLACEHOLDER_MS
    /\ est_out[2].start_ms = 0
    /\ est_out[2].end_ms = 1500

\* the descriptors a word record carries
DescriptorsOf(w) == {d \in {w.image, w.audio} : d.present}

\* C16: in the returned document every word that carries an image or a sound
\* effect has a resolved absolute_start_ms, equal to the word's start_ms plus
\* the descriptor's offset (a start of None counting as 0).
C16_AbsoluteStartResolved ==
    est_pc = "done" =>
        \A i \in 1..Len(est_out) : \A k \in 1..Len(est_out[i].words) :
            \A d \in DescriptorsOf(est_out[i].words[k]) :
                /\ d.resolved
                /\ d.absolute_start_ms = est_out[i].words[k].start_ms + d.start_ms

\* C16, where it holds: in an entry written from a measured duration every
\* descriptor is resolved, and to the word's start_ms plus the offset whenever
\* that sum is not negative; when it is negative the resolved value is that
\* sum or one more.
C16_ResolvedUpToTruncation ==
    est_pc = "done" =>
        \A i \in 1..Len(est_out) : Measured(i) =>
            \A k \in 1..Len(est_out[i].words) :
                \A d \in DescriptorsOf(est_out[i].words[k]) :
                    LET sum == est_out[i].words[k].start_ms + d.start_ms
                    IN  /\ d.resolved
                        /\ sum >= 0 => d.absolute_start_ms = sum
                        /\ sum < 0 => d.absolute_start_ms \in {sum, sum + 1}

(***************************************************************************)
(* Claims about a generation run (Spec)                                    *)
(***************************************************************************)
Finished == gen_pc \in {"returned", "raised"}

IssuedCalls == {p \in CallPaths : calls[p].status # "none"}

\* C2 as stated: no synthesis request is ever issued for a chunk whose text
\* has no alphanumeric character, whatever the number of chunks of the sentence.
C2_NoPunctuationOnlyRequest ==
    \A p \in IssuedCalls : HasAlnum(calls[p].text)

\* C3: once a synthesis call has failed, a finished run has raised: the final
\* combine did not run, nothing is at the output path, and neither an output
\* path nor a document is returned.
C3_FailedSynthesisFailsRun ==
    (Finished /\ \E p \in CallPaths : calls[p].status = "failed") =>
        /\ gen_pc = "raised"
        /\ gen_result.error # NoError
        /\ ~final_combine.ran
        /\ ~files[OutPath].exists
        /\ gen_result.output_path = NoPath
        /\ gen_result.sentences = <<>>

\* a run raised after one sentence failed and another was synthesized
C3_Witness ==
    /\ gen_pc = "raised"
    /\ \E p \in CallPaths : calls[p].status = "failed"
    /\ \E p \in CallPaths : calls[p].status = "ok"

\* C4 as stated: when generate_audio has finished, by return or by raise, no
\* temporary clip of a sentence or of a chunk is left on disk.
C4_NoTempFileRemains ==
    Finished => \A p \in CallPaths : ~files[p].exists

\* the (sentence, chunk) of each piece of an audio, in order
PieceKeys(data) == [j \in 1..Len(data) |-> <<data[j].s, data[j].c>>]

KeyBefore(a, b) == a[1] < b[1] \/ (a[1] = b[1] /\ a[2] < b[2])

StrictlyOrdered(keys) ==
    \A j \in 1..Len(keys) : \A k \in 1..Len(keys) : j < k => KeyBefore(keys[j], keys[k])

IssuedKeys == {<<calls[p].s, calls[p].c>> : p \in IssuedCalls}

SentencesWithWords == {i \in 1..Len(sentences) : Len(sentences[i].words) > 0}

NoConcatFallback ==
    /\ final_combine.runnable
    /\ final_combine.concat_ok
    /\ \A i \in 1..Len(sentences) : ~task[i].concat_fell_back

\* C5: whatever order the calls completed in, the audio of a returned run
\* holds the synthesized clips in (sentence, chunk) order, never out of order,
\* and holds every one of them unless a concatenation fell back to its first
\* clip; the document lists the sentences that have words in sentence order,
\* each with its words in their original order.
C5_OrderPreserved ==
    gen_pc = "returned" =>
        LET keys == PieceKeys(files[OutPath].data)
            doc == gen_result.sentences
        IN  /\ StrictlyOrdered(keys)
            /\ \A j \in 1..Len(keys) : keys[j] \in IssuedKeys
            /\ NoConcatFallback => {keys[j] : j \in 1..Len(keys)} = IssuedKeys
            /\ Len(doc) = Cardinality(SentencesWithWords)
            /\ \A j \in 1..Len(doc) :
                  /\ doc[j].sentence_index + 1 \in SentencesWithWords
                  /\ WordTexts(doc[j].words)
                         = WordTexts(sentences[doc[j].sentence_index + 1].words)
            /\ \A j \in 1..(Len(doc) - 1) :
                  doc[j].sentence_index < doc[j + 1].sentence_index

\* the second sentence finished before the first, and both clips are in the
\* audio of the returned run
C5_Witness ==
    /\ gen_pc = "returned"
    /\ finish_order = <<2, 1>>
    /\ Len(files[OutPath].data) = 2
    /\ Len(gen_result.sentences) = 2

\* the document invariant for one sentence entry
EntryInvariant(e) ==
    LET ws == e.words
        n == Len(ws)
    IN  /\ \A k \in 1..n : ws[k].start_ms <= ws[k].end_ms
        /\ \A k \in 1..(n - 1) :
              /\ ws[k].start_ms <= ws[k + 1].start_ms
              /\ ws[k].end_ms <= ws[k + 1].end_ms
        /\ n > 0 => /\ ws[1].start_ms = e.start_ms
                    /\ ws[n].end_ms <= e.end_ms
                    /\ e.end_ms - ws[n].end_ms <= 1

\* C8 as stated: every sentence entry of a returned document satisfies the
\* document invariant, whichever measurement path produced it.
C8_EveryEntryInvariant ==
    gen_pc = "returned" =>
        \A j \in 1..Len(gen_result.sentences) : EntryInvariant(gen_result.sentences[j])

\* C8, the two measuring paths only: every entry of a returned document that
\* was written from a measured duration (duration probe or byte-size
\* heuristic) satisfies the document invariant; an entry whose measurement
\* failed altogether is the preliminary entry, with its placeholder interval
\* and all words at 0.
C8_MeasuredEntryInvariant ==
    gen_pc = "returned" =>
        \A j \in 1..Len(gen_result.sentences) :
            LET e == gen_result.sentences[j]
            IN  IF Measured(j) THEN EntryInvariant(e)
                ELSE e = InitialEntry(e.sentence_index,
                                      sentences[e.sentence_index + 1].words)

\* a returned document whose second sentence was measured by the byte-size
\* heuristic
C8_Witness ==
    /\ gen_pc = "returned"
    /\ Len(gen_result.sentences) = 2
    /\ est_meas[1].probe_ok
    /\ ~est_meas[2].probe_ok /\ est_meas[2].size_ok
    /\ gen_result.sentences[2].start_ms > 0
    /\ gen_result.sentences[2].words[1].start_ms = gen_result.sentences[2].start_ms

\* the sentences whose task caught an engine error
FailedSentences == {i \in 1..Len(sentences) : task[i].result.kind = "error"}

\* C11: when a run fails because a sentence's synthesis failed, the error that
\* generate_audio raises, and the message shown to the user, carry the index
\* of a failed sentence together with the engine's error.
C11_ErrorNamesSentence ==
    (gen_pc = "raised" /\ FailedSentences # {}) =>
        /\ gen_result.error # NoError
        /\ gen_result.error_index + 1 \in FailedSentences
        /\ ShownError(gen_result).sentence_index + 1 \in FailedSentences

(***************************************************************************)
(* Claims about the final _combine_audio_files call of a run (Spec)        *)
(***************************************************************************)
FinalInputs == Len(final_combine.inputs)

\* the inputs whose trim exited non-zero or could not be run
FailedTrims == {j \in 1..FinalInputs : ~final_combine.trim_ok[j]}

\* the concat exited non-zero or could not be run
ConcatFailed ==
    /\ final_combine.ran
    /\ \/ final_combine.raise_at = FinalInputs + 1
       \/ (final_combine.raise_at = 0 /\ ~final_combine.concat_ok)

\* all clips in order, untrimmed where the trim failed and trimmed elsewhere
ExpectedMix ==
    ConcatAll([j \in 1..FinalInputs |->
                  IF j \in FailedTrims THEN final_combine.before[j]
                  ELSE Trim(final_combine.before[j])])

\* C12: when the trim fails for exactly one clip among several, by a non-zero
\* exit or because the process cannot be run, and the concat itself does not
\* fail, the output is the concatenation of all clips in order, untrimmed at
\* the failing position and trimmed at every other position.
C12_TrimFailureTolerated ==
    (/\ final_combine.ran
     /\ FinalInputs >= 2
     /\ Cardinality(FailedTrims) = 1
     /\ ~ConcatFailed) =>
        /\ files[OutPath].exists
        /\ files[OutPath].data = ExpectedMix

\* C12, non-zero exits only: whatever trims exit non-zero, as long as every
\* process could be started and the concat exits 0, the output is the
\* concatenation of all clips in order, untrimmed exactly where the trim failed.
C12_NonZeroExitTolerated ==
    (final_combine.ran /\ final_combine.raise_at = 0 /\ final_combine.concat_ok) =>
        /\ files[OutPath].exists
        /\ files[OutPath].data = ExpectedMix

\* C13: whenever the concat fails, the run still returns and an output file
\* exists at the output path, holding the first input clip only.
C13_ConcatFallbackLeavesOutput ==
    ConcatFailed =>
        /\ gen_pc = "returned"
        /\ files[OutPath].exists
        /\ FinalInputs > 0 => files[OutPath].data = final_combine.before[1]

\* C13, non-empty input lists only: when the concat fails and there is at
\* least one input clip, the output file exists and holds the first input
\* clip as it was before the call.
C13_NonEmptyFallback ==
    (ConcatFailed /\ FinalInputs > 0) =>
        /\ gen_pc = "returned"
        /\ files[OutPath].exists
        /\ files[OutPath].data = final_combine.before[1]

TaskPaths(i) ==
    ({task[i].current_temp_file}
        \cup {task[i].temp_chunk_files[j] : j \in 1..Len(task[i].temp_chunk_files)})
            \ {NoPath}

\* C17: while a synthesis call is in flight its temporary file is still the
\* empty file its task created (nobody else has written or deleted it), also
\* after a sibling chunk of the same sentence has failed; and no two tasks
\* are given the same temporary path.
C17_InFlightFileUntouched ==
    /\ \A p \in CallPaths : calls[p].status = "pending" => files[p] = EmptyFile
    /\ \A i \in 1..Len(sentences) : \A j \in 1..Len(sentences) :
          i # j => TaskPaths(i) \cap TaskPaths(j) = {}

\* C17, as long as no sibling has failed: the temporary file of a call in
\* flight is untouched while no call of the same sentence has failed, and no
\* two tasks are given the same temporary path.
C17_UntouchedWhileNoSiblingFailed ==
    /\ \A p \in CallPaths :
          (/\ calls[p].status = "pending"
           /\ \A q \in CallPaths :
                 (calls[q].status = "failed") => calls[q].s # calls[p].s)
              => files[p] = EmptyFile
    /\ \A i \in 1..Len(sentences) : \A j \in 1..Len(sentences) :
          i # j => TaskPaths(i) \cap TaskPaths(j) = {}

\* C19: whenever generate_audio returns, an audio file exists at the returned
\* output path and the document is returned with it; whenever it raises,
\* neither an output path nor a document is delivered.
C19_AtomicResult ==
    /\ gen_pc = "returned" =>
          /\ gen_result.output_path = OutPath
          /\ files[gen_result.output_path].exists
    /\ gen_pc = "raised" =>
          /\ gen_result.output_path = NoPath
          /\ gen_result.sentences = <<>>

\* C19, runs with at least one sentence that has words: a returned run has
\* written a file at the returned output path and returns one entry per such
\* sentence; a raised run delivers neither.
C19_AtomicWhenSomethingToSay ==
    /\ (gen_pc = "returned" /\ SentencesWithWords # {}) =>
          /\ gen_result.output_path = OutPath
          /\ files[gen_result.output_path].exists
          /\ Len(gen_result.sentences) = Cardinality(SentencesWithWords)
    /\ gen_pc = "raised" =>
          /\ gen_result.output_path = NoPath
          /\ gen_result.sentences = <<>>

\* the sentences that have words, in index order
WordedInOrder == PickInOrder(SentencesWithWords, 1, Len(sentences))

\* C20: in a returned document there is exactly one entry per sentence that
\* has words, in sentence order, and the words of each entry are the words of
\* its sentence, each once and in the original order, whether or not the
\* word was sent to the engine.
C20_EveryWordListed ==
    gen_pc = "returned" =>
        /\ Len(gen_result.sentences) = Len(WordedInOrder)
        /\ \A j \in 1..Len(gen_result.sentences) :
              LET e == gen_result.sentences[j]
                  ws == sentences[WordedInOrder[j]].words
              IN  /\ e.sentence_index = WordedInOrder[j] - 1
                  /\ Len(e.words) = Len(ws)
                  /\ \A k \in 1..Len(ws) : e.words[k].text = ws[k].text

\* a returned document lists a punctuation-only word whose chunk was not sent
\* to the engine, next to a spoken word
C20_Witness ==
    /\ gen_pc = "returned"
    /\ Len(gen_result.sentences) = 1
    /\ Len(sentences[1].words) = 2
    /\ Len(task[1].chunks) = 2
    /\ Len(task[1].temp_chunk_files) = 1
    /\ \E k \in 1..2 : gen_result.sentences[1].words[k].text = TextDot
    /\ \E k \in 1..2 : gen_result.sentences[1].words[k].text = TextHi

(***************************************************************************)
(* Claims about two runs side by side (SpecRuns)                           *)
(***************************************************************************)
\* C18: the paths pending cleanup are tracked per run: every path in a run's
\* temp_files list is a name that run created, and no run ever overwrites or
\* deletes a file of the other run.
C18_NoCrossRunCleanup ==
    /\ rn_foreign = {}
    /\ \A r \in DOMAIN rn_pc :
          \A j \in 1..Len(rn_temp_files[ListOf(r)]) :
              \E k \in 1..Len(rn_created[r]) :
                  rn_temp_files[ListOf(r)][j] = rn_created[r][k]

\* run 1 has unlinked its clips and returned while a clip of run 2, which is
\* still before its own cleanup, is on disk
C18_Witness ==
    /\ rn_pc # <<>>
    /\ rn_pc[1] = "returned"
    /\ Len(rn_temp_files[ListOf(1)]) >= 1
    /\ rn_pc[2] \in {"tasks", "combine"}
    /\ \E name \in DOMAIN rn_disk : rn_disk[name] = 2

(***************************************************************************)
(* Claims about the number of requests per sentence (SpecChunk)            *)
(***************************************************************************)
\* the (pitch, rate) each synthesized word reaches the engine with: the words of
\* the requests, in order, each with the parameters of its request
RECURSIVE SentProsody(_)
SentProsody(reqs) ==
    IF Len(reqs) = 0 THEN <<>>
    ELSE LET r == Head(reqs)
             n == Cardinality({j \in 1..Len(r.text) : r.text[j] = " "}) + 1
         IN  [j \in 1..n |-> [pitch |-> r.pitch, rate |-> r.rate]]
                 \o SentProsody(Tail(reqs))

\* C21: the number of synthesis requests issued for a sentence equals the number
\* of maximal runs of consecutive synthesized words that reach the engine with
\* the same (pitch, rate), so no two consecutive requests of one sentence are
\* sent with identical pitch and rate.
C21_MinimalRequests ==
    ck_pc = "done" =>
        LET reqs == Requests(1, ck_chunks)
        IN  /\ Len(reqs) = NumRuns(SentProsody(reqs))
            /\ \A j \in 1..(Len(reqs) - 1) :
                   <<reqs[j].pitch, reqs[j].rate>>
                       # <<reqs[j + 1].pitch, reqs[j + 1].rate>>

\* C21, what the grouping does give: when every chunk is voiced and every
\* word's pitch and rate are already in normal form, consecutive requests
\* differ in pitch or rate
C21_MinimalWhenNormalAndVoiced ==
    (/\ ck_pc = "done"
     /\ \A k \in 1..Len(ck_chunks) : HasAlnum(JoinWords(ck_chunks[k].words))
     /\ \A k \in 1..Len(ck_words) :
            /\ ValidateParam(ck_words[k].pitch, "pitch").ret = ck_words[k].pitch
            /\ ValidateParam(ck_words[k].rate, "rate").ret = ck_words[k].rate)
    => LET reqs == Requests(1, ck_chunks)
       IN  /\ Len(reqs) = NumRuns(SentProsody(reqs))
           /\ Len(reqs) = Len(ck_chunks)

\* C21, the two ways the grouping falls short, each on its own: an unvoiced
\* chunk that is skipped between two chunks of equal prosody
C21_NoSplitBySkippedChunk ==
    (/\ ck_pc = "done"
     /\ \A k \in 1..Len(ck_words) :
            ValidateParam(ck_words[k].pitch, "pitch").ret = ck_words[k].pitch)
    => LET reqs == Requests(1, ck_chunks)
       IN  Len(reqs) = NumRuns(SentProsody(reqs))

\* ... and two spellings of one pitch in neighbouring voiced words
C21_NoSplitBySpelling ==
    (/\ ck_pc = "done"
     /\ \A k \in 1..Len(ck_chunks) : HasAlnum(JoinWords(ck_chunks[k].words)))
    => LET reqs == Requests(1, ck_chunks)
       IN  Len(reqs) = NumRuns(SentProsody(reqs))

(***************************************************************************)
(* Claims about the two levels of fan-out (Spec)                           *)
(***************************************************************************)
\* the sentences whose clip was stitched from chunk clips
Stitched ==
    {i \in 1..Len(sentences) :
        /\ task[i].pc = "done"
        /\ task[i].result.kind = "ok"
        /\ Len(task[i].chunks) > 1}

\* the chunk requests of sentence i that are still in flight
InFlight(i) ==
    {p \in CallPaths : calls[p].s = i /\ calls[p].status = "pending"}

\* C22: the chunk requests of a sentence with more than one chunk are launched
\* together and awaited together, and so are the sentence tasks: once the
\* sentence's task is past its first step every one of its chunk requests has
\* been issued, a sentence is stitched only when none of its chunk requests is
\* still in flight, and the final combine runs only when every sentence task
\* is done and no request is in flight.
C22_FanOutAndJoin ==
    /\ \A i \in 1..Len(sentences) :
           task[i].pc = "await_chunks" =>
               \A j \in 1..Len(task[i].temp_chunk_files) :
                   calls[task[i].temp_chunk_files[j]].status # "none"
    /\ \A i \in Stitched : InFlight(i) = {}
    /\ final_combine.ran =>
           /\ \A i \in 1..Len(sentences) : task[i].pc = "done"
           /\ \A i \in 1..Len(sentences) : InFlight(i) = {}

\* a run has returned whose sentence was stitched from two chunk clips
C22_Witness ==
    /\ gen_pc = "returned"
    /\ final_combine.ran
    /\ \E i \in Stitched : Len(task[i].temp_chunk_files) = 2

\* C22, the fan-out itself: two chunk requests of one sentence are in flight
\* at once, and requests of two sentences are in flight at once
C22_ChunksInFlightTogether ==
    \E i \in 1..Len(sentences) : Cardinality(InFlight(i)) = 2

C22_SentencesInFlightTogether ==
    /\ Len(sentences) = 2
    /\ InFlight(1) # {}
    /\ InFlight(2) # {}

(***************************************************************************)
(* Claims about the editor (SpecApp)                                       *)
(***************************************************************************)
\* a step of the Generate Audio handler that starts a generation
StartsGeneration == app_started' = app_started + 1

\* C23: each generation synthesizes every word the user never customized with
\* the global pitch and rate in force at that generation, and every customized
\* word with its own values.
C23_GlobalUnlessCustomized ==
    [][StartsGeneration =>
          \A i \in 1..Len(app_sentences) :
          \A k \in 1..Len(app_sentences[i].words) :
              LET before == app_sentences[i].words[k]
                  sent == app_sentences'[i].words[k]
              IN  IF before.custom
                  THEN sent.pitch = before.pitch /\ sent.rate = before.rate
                  ELSE sent.pitch = pitch_var /\ sent.rate = rate_var]_vars

\* C23, for words the user never customized alone
C23_UncustomizedTakeGlobals ==
    [][StartsGeneration =>
          \A i \in 1..Len(app_sentences) :
          \A k \in 1..Len(app_sentences[i].words) :
              ~app_sentences[i].words[k].custom =>
                  /\ app_sentences'[i].words[k].pitch = pitch_var
                  /\ app_sentences'[i].words[k].rate = rate_var]_vars

\* C23, for customized words alone
C23_CustomizedKeepTheirs ==
    [][StartsGeneration =>
          \A i \in 1..Len(app_sentences) :
          \A k \in 1..Len(app_sentences[i].words) :
              app_sentences[i].words[k].custom =>
                  /\ app_sentences'[i].words[k].pitch = app_sentences[i].words[k].pitch
                  /\ app_sentences'[i].words[k].rate = app_sentences[i].words[k].rate]_vars

\* C23, what the handler does give: a field that still holds the default text
\* takes the global value, every other field is kept
C23_DefaultFieldsTakeGlobals ==
    [][StartsGeneration =>
          \A i \in 1..Len(app_sentences) :
          \A k \in 1..Len(app_sentences[i].words) :
              LET before == app_sentences[i].words[k]
                  sent == app_sentences'[i].words[k]
              IN  /\ sent.pitch = IF before.pitch = PitchDefault
                                  THEN pitch_var ELSE before.pitch
                  /\ sent.rate = IF before.rate = RateDefault
                                 THEN rate_var ELSE before.rate]_vars

\* a step of the Generate Audio handler that ends with a warning
Rejected ==
    /\ app_requests' = app_requests + 1
    /\ app_shown' \in {"No Sentences", "Missing Title"}

\* C29: a generation request that the editor rejects (no parsed sentences, or
\* a missing title) starts no generation run and leaves every sentence's
\* voice, pitch and rate and every word's pitch and rate unchanged.
C29_RejectedChangesNothing ==
    [][Rejected =>
          /\ app_started' = app_started
          /\ app_sentences' = app_sentences]_vars

\* C29, the part that holds: a rejected request starts no generation run
C29_RejectedStartsNoRun ==
    [][Rejected => app_started' = app_started]_vars

\* C29, the rejection for want of sentences alone changes nothing
C29_NoSentencesChangesNothing ==
    [][(Rejected /\ app_shown' = "No Sentences") =>
          /\ app_started' = app_started
          /\ app_sentences' = app_sentences]_vars

(***************************************************************************)
(* Claims about the time codes (SpecTime)                                  *)
(***************************************************************************)
\* the fields of a rendered time code: everything before the last nine
\* characters is the hours, then ":MM:SS", a separator and "mmm"
TimeFields(str) ==
    LET n == Len(str)
    IN  [hours |-> SubSeq(str, 1, n - 10),
         colon1 |-> str[n - 9],
         minutes |-> SubSeq(str, n - 8, n - 7),
         colon2 |-> str[n - 6],
         seconds |-> SubSeq(str, n - 5, n - 4),
         sep |-> str[n - 3],
         milliseconds |-> SubSeq(str, n - 2, n)]

\* C30: for every non-negative integer ms, _ms_to_srt_time renders
\* HH:MM:SS,mmm (the hours with two digits or more) with minutes and seconds in
\* 0..59 and milliseconds in 0..999, _srt_time_to_ms applied to that rendering
\* returns ms again, and _ms_to_vtt_time renders the same fields with '.' in
\* place of ','.
C30_TimeCodeRoundTrip ==
    /\ tm_pc \in {"rendered", "parsed"} =>
           /\ Len(tm_srt) >= 12
           /\ LET f == TimeFields(tm_srt)
              IN  /\ AllDigits(f.hours) /\ Len(f.hours) >= 2
                  /\ f.colon1 = ":" /\ f.colon2 = ":" /\ f.sep = ","
                  /\ AllDigits(f.minutes) /\ DigitsToNat(f.minutes) \in 0..59
                  /\ AllDigits(f.seconds) /\ DigitsToNat(f.seconds) \in 0..59
                  /\ AllDigits(f.milliseconds)
                  /\ DigitsToNat(f.milliseconds) \in 0..999
                  /\ ((DigitsToNat(f.hours) * 60 + DigitsToNat(f.minutes)) * 60
                         + DigitsToNat(f.seconds)) * 1000
                         + DigitsToNat(f.milliseconds) = tm_ms
           /\ Len(tm_vtt) = Len(tm_srt)
           /\ \A j \in 1..Len(tm_srt) :
                  tm_vtt[j] = IF j = Len(tm_srt) - 3 THEN "." ELSE tm_srt[j]
    /\ tm_pc = "parsed" => tm_back = tm_ms

\* an instant past one hour, one minute and one second has made the round trip
C30_Witness ==
    /\ tm_pc = "parsed"
    /\ tm_ms = 3661001
    /\ tm_srt = <<"0", "1", ":", "0", "1", ":", "0", "1", ",", "0", "0", "1">>
    /\ tm_back = 3661001

(***************************************************************************)
(* Claims about a sentence without words (Spec)                            *)
(***************************************************************************)
WordlessSentences == {i \in 1..Len(sentences) : Len(sentences[i].words) = 0}

\* the interval of an entry and of each of its words
TimingOf(e) ==
    [start_ms |-> e.start_ms, end_ms |-> e.end_ms,
     words |-> [k \in 1..Len(e.words) |->
                   [start_ms |-> e.words[k].start_ms, end_ms |-> e.words[k].end_ms]]]

\* the entries the same clips give when the script is handed over without its
\* wordless sentences
WithoutWordless ==
    LET worded == SelectSeq(sentences, LAMBDA st : Len(st.words) > 0)
    IN  EstimateTimestamps(est_meas,
            [k \in 1..Len(worded) |-> InitialEntry(k - 1, worded[k].words)]).timestamps

\* a wordless sentence issues no request, has no temporary file, gives no clip
\* and no entry, and is not what makes the run raise
WordlessLeavesNoTrace ==
    \A i \in WordlessSentences :
        /\ \A p \in CallPaths : calls[p].status # "none" => calls[p].s # i
        /\ \A p \in AllPaths : (p.kind \in {"sent", "chunk"} /\ p.s = i) =>
               ~files[p].exists
        /\ task[i].pc = "done" => task[i].result = SkipResult
        /\ final_combine.ran =>
               \A j \in 1..Len(final_combine.inputs) :
                   final_combine.inputs[j] # SentPath(i)
        /\ gen_pc = "returned" =>
               /\ \A j \in 1..Len(gen_result.sentences) :
                      gen_result.sentences[j].sentence_index # i - 1
               /\ Len(gen_result.sentences)
                      = Len(sentences) - Cardinality(WordlessSentences)
               /\ \A j \in 1..(Len(gen_result.sentences) - 1) :
                      gen_result.sentences[j].sentence_index
                          < gen_result.sentences[j + 1].sentence_index
        /\ gen_pc = "raised" => gen_result.error # NoError

EstimatorRuns == est_pc = "ready" /\ est_pc' # "ready"

\* C25: _estimate_timestamps leaves the preliminary timestamp entries it is
\* given unchanged: after it returns, every preliminary sentence entry and
\* every word record inside it holds the same values as before the call.
C25_PreliminaryEntriesUnchanged ==
    [][EstimatorRuns => est_initial' = est_initial]_vars

\* C25, what the shallow copy does protect: the interval and the index of
\* every preliminary entry, and the whole preliminary entry of a clip that
\* could not be measured
C25_EntryFieldsUnchanged ==
    [][EstimatorRuns =>
          /\ Len(est_initial') = Len(est_initial)
          /\ \A i \in 1..Len(est_initial) :
                 /\ est_initial'[i].sentence_index = est_initial[i].sentence_index
                 /\ est_initial'[i].start_ms = est_initial[i].start_ms
                 /\ est_initial'[i].end_ms = est_initial[i].end_ms
                 /\ (i <= Len(est_meas) /\ ~MeasureDuration(est_meas[i]).ok) =>
                        est_initial'[i] = est_initial[i]]_vars

\* C25, the purpose named by the claim: an entry that falls back to the
\* preliminary entry is the entry as it was handed in
C25_FallbackIsOriginal ==
    [][(EstimatorRuns /\ Len(est_meas) = Len(est_initial)) =>
          \A i \in 1..Len(est_meas) :
              ~MeasureDuration(est_meas[i]).ok => est_out'[i] = est_initial[i]]_vars

(***************************************************************************)
(* Claims about the intermediate files of _combine_audio_files (Spec)      *)
(***************************************************************************)
ListFiles == {p \in AllPaths : p.kind = "list"}

\* C26: after _combine_audio_files returns, none of its own intermediate files
\* remains on disk, whether trimming and concatenation succeeded or failed.
\* (A combine call is one step, so a list file that exists in a state was
\* left behind by a call that has returned.)
C26_NoIntermediateFileRemains ==
    \A p \in ListFiles : ~files[p].exists

\* C26, the case that holds: the list file of the final combine is gone when
\* the concatenation succeeded
C26_ListFileGoneAfterConcat ==
    (final_combine.ran /\ final_combine.runnable /\ final_combine.concat_ok) =>
        ~files[ListPath(0)].exists

\* C26, the list file of the final combine stays exactly when the trim loop
\* came to its end and the concatenation then failed
C26_ListFileLeftAfterFailedConcat ==
    final_combine.ran =>
        (files[ListPath(0)].exists <=>
            /\ final_combine.raise_at \in {0, Len(final_combine.inputs) + 1}
            /\ ~(final_combine.runnable /\ final_combine.concat_ok))

(***************************************************************************)
(* Claims about the document against the output audio (Spec)               *)
(***************************************************************************)
\* the end of the last entry and the length of the output audio, in
\* microseconds
DocumentEndUs ==
    IF Len(gen_result.sentences) = 0 THEN 0
    ELSE gen_result.sentences[Len(gen_result.sentences)].end_ms * 1000

OutputUs == IF files[OutPath].exists THEN DurationUs(files[OutPath].data) ELSE 0

\* less than one millisecond apart
WithinRounding(a, b) == Abs(a - b) < 1000

\* C27: in every run that returns successfully, the end_ms of the last
\* sentence in the TimingDocument equals, within rounding, the total duration
\* of the clips that make up the output audio file, also when a trim or
\* concat fallback was taken during the run.
C27_DocumentEndsWithAudio ==
    (gen_pc = "returned" /\ Len(gen_result.sentences) > 0) =>
        WithinRounding(DocumentEndUs, OutputUs)

\* C27, the runs for which it holds: the final concatenation succeeded and
\* ffprobe measured every sentence clip; failed trims do not matter
C27_EndsWithAudioWhenConcatenatedAndProbed ==
    (/\ gen_pc = "returned"
     /\ Len(gen_result.sentences) > 0
     /\ final_combine.runnable /\ final_combine.concat_ok
     /\ \A j \in 1..Len(est_meas) : est_meas[j].probe_ok) =>
        WithinRounding(DocumentEndUs, OutputUs)

\* C27, the concat fallback alone breaks it: every clip probed, yet the
\* document ends later than the audio
C27_EndsWithAudioWhenProbed ==
    (/\ gen_pc = "returned"
     /\ Len(gen_result.sentences) > 0
     /\ \A j \in 1..Len(est_meas) : est_meas[j].probe_ok) =>
        WithinRounding(DocumentEndUs, OutputUs)

(***************************************************************************)
(* Claims about several failing sentences (Spec)                           *)
(***************************************************************************)
\* C28: when several sentences fail in one run, generate_audio raises the
\* error of the failing sentence with the lowest original index, and it raises
\* only after every sentence task has run to completion: a failure in one
\* sentence neither cancels nor pre-empts the other sentences' tasks.
C28_LowestFailedSentenceRaised ==
    /\ (gen_pc = "raised" /\ FailedSentences # {}) =>
           LET lowest == CHOOSE i \in FailedSentences :
                             \A k \in FailedSentences : i <= k
           IN  /\ gen_result.error = task[lowest].result.error
               /\ gen_result.error.s = lowest
               /\ \A i \in 1..Len(sentences) :
                      /\ task[i].pc = "done"
                      /\ task[i].result.kind \in {"ok", "skip", "error"}
    /\ \A i \in 1..Len(sentences) :
           (task[i].pc # "done" /\ FailedSentences # {}) => gen_pc = "running"

\* two sentences failed, the second one first; the run raised the error of
\* the first sentence after both tasks had finished
C28_Witness ==
    /\ gen_pc = "raised"
    /\ FailedSentences = {1, 2}
    /\ finish_order = <<2, 1>>
    /\ gen_result.error.s = 1

====
